---- MODULE Spec2Model ----
(***************************************************************************)
(* Call-evaluation dashboard: the Airtable importer (record mapper and     *)
(* row-by-row upsert into call_evaluations), the list query builder, the   *)
(* tRPC procedures that expose them and the Home page's sync dialog.       *)
(*                                                                         *)
(* Conventions.  A JavaScript string is a sequence of one-character        *)
(* strings.  An optional or nullable value is Null (undefined / null /     *)
(* SQL NULL) or Some(v).  A JavaScript number and a DECIMAL(5,2) column    *)
(* are integers counting thousandths and hundredths respectively.  An      *)
(* instant is an integer number of ticks, TicksPerDay ticks to the UTC day.*)
(***************************************************************************)
EXTENDS Integers, Sequences, FiniteSets, TLC

VARIABLES
    rows,        \* the call_evaluations table: a set of rows
    nextId,      \* its AUTO_INCREMENT counter
    clock,       \* the storage engine's CURRENT_TIMESTAMP
    procs,       \* each caller's request in flight and the result of its last one
    lastSync,    \* history: the last import that completed with no other writer
    requests,    \* the number of requests the server has accepted so far
    ui,          \* state of the Home page (auth, sync dialog, toast)
    record,      \* the external record handed to the mapper
    evaluation,  \* the mapper's output for record
    listInput,   \* the input of the last evaluations.list call
    listResult,  \* the rows it returned
    statsResult, \* the answer of the last evaluations.stats on the present table
    trendsInput, \* the filter and the server's zone of the last evaluations.trends
    trendsResult,\* the series it returned
    lastCall     \* the last procedure call made on the service under its
                 \* environment: the input, the outcome

vars == <<rows, nextId, clock, procs, lastSync, requests, ui,
          record, evaluation, listInput, listResult,
          statsResult, trendsInput, trendsResult, lastCall>>

----------------------------------------------------------------------------
(* Bounds of the model *)

MaxCallers == 2
MaxRequests == 2
MaxClock == 1
TicksPerDay == 2

----------------------------------------------------------------------------
(* Values *)

Null == <<>>
Some(v) == <<v>>
Val(o) == o[1]

\* JavaScript truthiness of an optional string / number, as `x || y` tests it
TruthyStr(o) == o # Null /\ Val(o) # <<>>
TruthyNum(o) == o # Null /\ Val(o) # 0

LowerCase == <<"a","b","c","d","e","f","g","h","i","j","k","l","m",
               "n","o","p","q","r","s","t","u","v","w","x","y","z">>
UpperCase == <<"A","B","C","D","E","F","G","H","I","J","K","L","M",
               "N","O","P","Q","R","S","T","U","V","W","X","Y","Z">>

toUpperCaseChar(c) ==
    IF \E i \in 1..Len(LowerCase) : LowerCase[i] = c
    THEN UpperCase[CHOOSE i \in 1..Len(LowerCase) : LowerCase[i] = c]
    ELSE c

toUpperCase(s) == [i \in 1..Len(s) |-> toUpperCaseChar(s[i])]

SeqRange(s) == {s[i] : i \in 1..Len(s)}

\* The strings of the program
COBROS == <<"C","O","B","R","O","S">>
ATENCION == <<"A","T","E","N","C","I","O","N">>
RECLAMACIONES == <<"R","E","C","L","A","M","A","C","I","O","N","E","S">>
GESTION_SINGULAR == <<"G","E","S","T","I","O","N"," ","S","I","N","G","U","L","A","R">>
FACTURACION == <<"F","A","C","T","U","R","A","C","I","O","N">>
CONTRATACION == <<"C","O","N","T","R","A","T","A","C","I","O","N">>
DESCONOCIDO == <<"D","E","S","C","O","N","O","C","I","D","O">>
P0 == <<"P","0">>
P1 == <<"P","1">>

\* mysqlEnum("proceso", [...]) and mysqlEnum("priority", [...])
ProcesoEnum == {COBROS, ATENCION, RECLAMACIONES, GESTION_SINGULAR,
                FACTURACION, CONTRATACION, DESCONOCIDO}
PriorityEnum == {P0, P1}

\* The array literal the mapper tests the upper-cased proceso against
KnownProcesos == <<COBROS, ATENCION, RECLAMACIONES, GESTION_SINGULAR,
                   FACTURACION, CONTRATACION>>

----------------------------------------------------------------------------
(* Conversions *)

\* new Date(s) for an ISO timestamp string s, modelled as [date, time]
NewDate(s) == s.date * TicksPerDay + s.time

\* A JavaScript number (thousandths) written as a decimal string and stored in
\* a DECIMAL(5,2) column (hundredths): MySQL rounds half away from zero.
ToDecimal52(n) ==
    IF n >= 0 THEN (n + 5) \div 10 ELSE -((-n + 5) \div 10)

----------------------------------------------------------------------------
(* Record mapper *)

\* AirtableRecord.fields with every field absent
NoFields ==
    [call_id |-> Null, operator_id |-> Null, operator_name |-> Null,
     scenario_id |-> Null, scenario_name |-> Null, proceso |-> Null,
     priority |-> Null, adherence_score |-> Null, sentiment_score |-> Null,
     correctness_score |-> Null, speed_score |-> Null, average_score |-> Null,
     status |-> Null, feedback |-> Null, areas_mejora |-> Null,
     fortalezas |-> Null, critical_issues |-> Null, duration_seconds |-> Null,
     evaluated_at |-> Null, raw_claude_response |-> Null,
     expected_wrapup |-> Null, expected_steps |-> Null]

\* `s || null` on an optional string
StrOrNull(o) == IF TruthyStr(o) THEN o ELSE Null

\* `n?.toString() || null` on an optional number: "0" is a non-empty string
NumToStringOrNull(o) == IF o # Null THEN o ELSE Null

\* `n || null` on an optional number: 0 is falsy
NumOrNull(o) == IF TruthyNum(o) THEN o ELSE Null

\* Mutant: the source value compared without toUpperCase()
mapProcesoNoUpperCase(fields) ==
    IF TruthyStr(fields.proceso)
       /\ Val(fields.proceso) \in SeqRange(KnownProcesos)
    THEN Val(fields.proceso)
    ELSE DESCONOCIDO

\* const procesoRaw = fields.proceso?.toUpperCase(); known ? procesoRaw : DESCONOCIDO
mapProceso(fields) ==
    IF TruthyStr(fields.proceso)
       /\ toUpperCase(Val(fields.proceso)) \in SeqRange(KnownProcesos)
    THEN toUpperCase(Val(fields.proceso))
    ELSE DESCONOCIDO

\* Mutant: the priority compared in any letter case
mapPriorityAnyCase(fields) ==
    IF fields.priority # Null /\ toUpperCase(Val(fields.priority)) = P1
    THEN P1 ELSE P0

\* fields.priority === 'P1' ? 'P1' : 'P0'
mapPriority(fields) ==
    IF fields.priority = Some(P1) THEN P1 ELSE P0

\* the call_id taken whenever the field is present, empty or not
mapCallIdIfPresent(rec) ==
    IF rec.fields.call_id # Null THEN Val(rec.fields.call_id) ELSE rec.id

\* fields.call_id || record.id
mapCallId(rec) ==
    IF TruthyStr(rec.fields.call_id) THEN Val(rec.fields.call_id) ELSE rec.id

mapAirtableToEvaluation(rec) ==
    LET fields == rec.fields IN
    [callId |-> mapCallId(rec),
     operatorId |-> StrOrNull(fields.operator_id),
     operatorName |-> StrOrNull(fields.operator_name),
     scenarioId |-> StrOrNull(fields.scenario_id),
     scenarioName |-> StrOrNull(fields.scenario_name),
     proceso |-> Some(mapProceso(fields)),
     priority |-> Some(mapPriority(fields)),
     adherenceScore |-> NumToStringOrNull(fields.adherence_score),
     sentimentScore |-> NumToStringOrNull(fields.sentiment_score),
     correctnessScore |-> NumToStringOrNull(fields.correctness_score),
     speedScore |-> NumToStringOrNull(fields.speed_score),
     averageScore |-> NumToStringOrNull(fields.average_score),
     status |-> StrOrNull(fields.status),
     feedback |-> StrOrNull(fields.feedback),
     areasMejora |-> StrOrNull(fields.areas_mejora),
     fortalezas |-> StrOrNull(fields.fortalezas),
     criticalIssues |-> StrOrNull(fields.critical_issues),
     durationSeconds |-> NumOrNull(fields.duration_seconds),
     evaluatedAt |-> IF fields.evaluated_at # Null
                     THEN Some(NewDate(Val(fields.evaluated_at))) ELSE Null,
     rawClaudeResponse |-> StrOrNull(fields.raw_claude_response),
     expectedWrapup |-> StrOrNull(fields.expected_wrapup),
     expectedSteps |-> StrOrNull(fields.expected_steps),
     airtableRecordId |-> rec.id]

----------------------------------------------------------------------------
(* Storage: the call_evaluations table *)

\* DECIMAL(5,2) column value of an optional decimal string
DecimalColumn(o) == IF o # Null THEN Some(ToDecimal52(Val(o))) ELSE Null

\* The columns an INSERT / ON DUPLICATE KEY UPDATE writes from an evaluation
WrittenColumns(e) ==
    [operatorId |-> e.operatorId, operatorName |-> e.operatorName,
     scenarioId |-> e.scenarioId, scenarioName |-> e.scenarioName,
     proceso |-> e.proceso, priority |-> e.priority,
     adherenceScore |-> DecimalColumn(e.adherenceScore),
     sentimentScore |-> DecimalColumn(e.sentimentScore),
     correctnessScore |-> DecimalColumn(e.correctnessScore),
     speedScore |-> DecimalColumn(e.speedScore),
     averageScore |-> DecimalColumn(e.averageScore),
     status |-> e.status, feedback |-> e.feedback,
     areasMejora |-> e.areasMejora, fortalezas |-> e.fortalezas,
     criticalIssues |-> e.criticalIssues,
     durationSeconds |-> e.durationSeconds, evaluatedAt |-> e.evaluatedAt,
     rawClaudeResponse |-> e.rawClaudeResponse,
     expectedWrapup |-> e.expectedWrapup, expectedSteps |-> e.expectedSteps,
     airtableRecordId |-> Some(e.airtableRecordId)]

\* r @@-style record merge: the fields of a, overridden / extended by b
Merge(a, b) ==
    [k \in DOMAIN a \cup DOMAIN b |-> IF k \in DOMAIN b THEN b[k] ELSE a[k]]

\* A plain INSERT: a new row with the next id, created and updated now
InsertRow(table, id, now, e) ==
    table \cup {Merge(WrittenColumns(e),
                      [id |-> id, callId |-> e.callId,
                       createdAt |-> now, updatedAt |-> now])}

\* an update that writes only the columns the evaluation has a value for
UpdateRowKeepingAbsent(table, now, e) ==
    LET w == WrittenColumns(e)
    IN  {IF r.callId = e.callId
         THEN Merge(r, Merge([col \in DOMAIN w |->
                                 IF w[col] # Null THEN w[col] ELSE r[col]],
                             [updatedAt |-> now]))
         ELSE r : r \in table}

\* The UPDATE branch: every written column overwritten, updatedAt refreshed,
\* id, callId and createdAt kept
UpdateRow(table, now, e) ==
    {IF r.callId = e.callId
     THEN Merge(r, Merge(WrittenColumns(e), [updatedAt |-> now]))
     ELSE r : r \in table}

\* Mutant: the statement without ON DUPLICATE KEY UPDATE and without the
\* unique index on callId
upsertAlwaysInserts(table, id, now, e) == InsertRow(table, id, now, e)

\* db.insert(callEvaluations).values(e).onDuplicateKeyUpdate({set: ...}) against
\* the unique index on callId: one atomic statement
upsertCallEvaluation(table, id, now, e) ==
    IF \E r \in table : r.callId = e.callId
    THEN UpdateRow(table, now, e)
    ELSE InsertRow(table, id, now, e)

\* bulkUpsertCallEvaluations with the store answering: the upserts one after
\* the other, in the order of the evaluations
RECURSIVE bulkUpsertCallEvaluations(_, _, _, _)
bulkUpsertCallEvaluations(table, id, now, evaluations) ==
    IF evaluations = <<>> THEN [rows |-> table, nextId |-> id]
    ELSE LET e == Head(evaluations)
             inserts == ~\E r \in table : r.callId = e.callId
         IN  bulkUpsertCallEvaluations(
                 upsertCallEvaluation(table, id, now, e),
                 IF inserts THEN id + 1 ELSE id, now, Tail(evaluations))

----------------------------------------------------------------------------
(* The external source: Airtable tables, served page by page *)

CALL1 == <<"c","1">>
CALL2 == <<"c","2">>
REC_A == <<"r","e","c","A">>
REC_B == <<"r","e","c","B">>
REC_C == <<"r","e","c","C">>
ANA == <<"A","n","a">>
LUIS == <<"L","u","i","s">>
PAT_KEY == <<"p","a","t","1">>
TEST_KEY == <<"t","e","s","t","-","k","e","y">>
BLANK_KEY == <<" ">>
\* two keys pasted on two lines
LONG_KEY == [i \in 1..221 |-> IF i = 111 THEN "\n" ELSE "k"]

\* The personal access tokens Airtable accepts
ValidKeys == {PAT_KEY}

RecA55 ==
    [id |-> REC_A,
     fields |-> Merge(NoFields,
        [call_id |-> Some(CALL1), operator_name |-> Some(ANA),
         proceso |-> Some(<<"c","o","b","r","o","s">>),
         average_score |-> Some(55000),
         evaluated_at |-> Some([date |-> 1, time |-> 0])])]

\* the same record after its average score was edited
RecA80 ==
    [RecA55 EXCEPT !.fields.average_score = Some(80000)]

\* the same record after its call_id and its average score were edited
RecA80Moved ==
    [RecA80 EXCEPT !.fields.call_id = Some(CALL2)]

\* a record without call_id
RecB ==
    [id |-> REC_B,
     fields |-> Merge(NoFields,
        [operator_name |-> Some(LUIS), priority |-> Some(P1),
         proceso |-> Some(<<"V","e","n","t","a","s">>)])]

\* The contents the external table can have: each a sequence of pages
Snapshots ==
    << << <<RecA55>>, <<RecB>> >>,
       << <<RecA80, RecB>> >>,
       << <<RecA80Moved>> >>,
       << <<>> >> >>

\* The text of a sequence of characters
RECURSIVE Str(_)
Str(chars) ==
    IF chars = <<>> THEN ""
    ELSE IF Len(chars) = 1 THEN chars[1]
    ELSE LET half == Len(chars) \div 2
         IN  Str(SubSeq(chars, 1, half))
                \o Str(SubSeq(chars, half + 1, Len(chars)))

\* fetch accepts the Authorization header: no line break in its value
ValidHeaderValue(apiKey) ==
    \A k \in 1..Len(apiKey) : apiKey[k] \notin {"\n", "\r"}

\* The TypeError fetch rejects with on an invalid header value
HeaderError(apiKey) ==
    "Headers.append: \"Bearer " \o Str(apiKey)
        \o "\" is an invalid header value."

\* How a GET goes on the way to the table and back
Transports == {"ok", "notFound", "unavailable"}

\* The body of a rejected request, as JSON.parse and errorJson.error?.message
\* see it: whether the text is JSON, and the error's message if it has one
AuthBody == [json |-> TRUE, message |-> Some("Authentication required")]
NotFoundBody == [json |-> TRUE, message |-> Null]
GatewayBody == [json |-> FALSE, message |-> Null]

\* One GET on the table with an optional offset token. Either fetch throws
\* (error), or a response comes back: the offset parameter of its url, the HTTP
\* status and either the page's records with the continuation token if pages
\* remain, or the body of the rejection
AirtableFetch(apiKey, snap, offset, transport) ==
    LET pages == Snapshots[snap]
        n == IF offset = Null THEN 1 ELSE Val(offset)
        rejected(status, body) ==
            [error |-> Null, url |-> offset, ok |-> FALSE, status |-> status,
             body |-> body, records |-> <<>>, offset |-> Null]
    IN  IF ~ValidHeaderValue(apiKey)
        THEN [error |-> Some(HeaderError(apiKey)), url |-> offset, ok |-> FALSE,
              status |-> 0, body |-> Null, records |-> <<>>, offset |-> Null]
        ELSE IF apiKey \notin ValidKeys THEN rejected(401, AuthBody)
        ELSE IF transport = "notFound" THEN rejected(404, NotFoundBody)
        ELSE IF transport = "unavailable" THEN rejected(503, GatewayBody)
        ELSE [error |-> Null, url |-> offset, ok |-> TRUE, status |-> 200,
              body |-> Null, records |-> pages[n],
              offset |-> IF n < Len(pages) THEN Some(n + 1) ELSE Null]

----------------------------------------------------------------------------
(* tRPC procedures: evaluations.syncFromAirtable and evaluations.clearAll *)

Browser == 0                   \* the Home page's syncMutation
ApiCallers == 1..MaxCallers    \* clients calling the procedures directly
Callers == {Browser} \cup ApiCallers

\* ctx.user of a request: null or the signed-in user
NoUser == Null
TestUser == Some(1)

\* The request context of each API caller: odd callers come with no session
\* (createPublicContext), even callers with a signed-in user (createAuthContext)
UserOf(p) == IF p % 2 = 1 THEN NoUser ELSE TestUser

\* The try block on the body of a rejected request: the error it throws, if
\* any (JSON.parse on a text that is not JSON, or the Airtable message)
ParseErrorText(body) ==
    IF ~body.json THEN Some("SyntaxError")
    ELSE IF body.message # Null THEN Some("Airtable: " \o Val(body.message))
    ELSE Null

\* catch (parseErr) with an empty block: the error leaving the try statement
CatchParseErr(thrown) == Null

ErrAirtableApi(status) ==
    "Airtable API error (" \o ToString(status)
        \o "): Verifica tu API Key y permisos"

\* if (!response.ok): the error thrown out of the fetch loop
RejectedError(response) ==
    LET escaped == CatchParseErr(ParseErrorText(response.body))
    IN  IF escaped # Null THEN Val(escaped) ELSE ErrAirtableApi(response.status)

\* the message rethrown as it is, whatever its length
MessageUncut(message) == message

\* The outer catch: the message rethrown to the caller
cleanMessage(message) ==
    IF Len(message) > 200 THEN SubSeq(message, 1, 200) \o "..." ELSE message

ErrEmptyTable == "No se encontraron registros en Airtable. Verifica que la tabla tenga datos."
ErrDatabase == "Error al guardar en la base de datos. Verifica la conexion DATABASE_URL."
\* The error of the storage functions when getDb() gives no handle
ErrNoDatabase == "Database not available"

\* catch (dbError) rethrowing the raw error of the store
SaveErrorRaw(dbError) == dbError

\* catch (dbError): the error thrown in place of the store's
SaveError(dbError) == ErrDatabase

IdleProc ==
    [pc |-> "idle", apiKey |-> <<>>, snap |-> 0, offset |-> Null,
     response |-> Null, allRecords |-> <<>>, evaluations |-> <<>>, i |-> 0,
     alone |-> TRUE, prev |-> Null, result |-> Null]

Active(p) == procs[p].pc # "idle"

\* publicProcedure: the procedure runs whatever ctx.user is
publicProcedure(user) == TRUE

\* What the caller gets back
Success(op, n, written) ==
    [op |-> op, ok |-> TRUE, recordsImported |-> n, message |-> "",
     written |-> written]
\* an error that also reports how many records were saved before it
FailureWithCount(op, msg, written) ==
    [op |-> op, ok |-> FALSE, recordsImported |-> written, message |-> msg,
     written |-> written]
Failure(op, msg, written) ==
    [op |-> op, ok |-> FALSE, recordsImported |-> 0, message |-> msg,
     written |-> written]

\* The mutation's onSuccess / onError callbacks on the Home page
OnSettled(p, result) ==
    IF p = Browser
    THEN [ui EXCEPT !.syncResult = Some(result.ok),
                    !.toast = IF result.ok THEN "syncOk" ELSE "syncError"]
    ELSE ui

\* The call ends: the result goes to the caller
Settle(result) == [IdleProc EXCEPT !.result = Some(result)]

\* Another caller wrote to the table: calls in flight no longer run alone
Disturb(P, writer) ==
    [q \in Callers |->
        IF q # writer /\ P[q].pc # "idle" THEN [P[q] EXCEPT !.alone = FALSE]
        ELSE P[q]]

\* The request arrives and the first page is requested
SyncStart(p, user, apiKey, snap) ==
    /\ procs[p].pc = "idle"
    /\ publicProcedure(user)
    /\ requests < MaxRequests
    /\ requests' = requests + 1
    /\ procs' = [procs EXCEPT ![p] =
          [IdleProc EXCEPT !.pc = "fetch", !.apiKey = apiKey, !.snap = snap,
                           !.prev = IF \A q \in Callers \ {p} : ~Active(q)
                                    THEN lastSync ELSE Null]]
    /\ UNCHANGED <<rows, nextId, clock, lastSync>>

\* The API clients are numbered in the order of their first calls
Numbered(p) ==
    \A q \in ApiCallers :
       q < p => (procs[q].pc # "idle" \/ procs[q].result # Null)

\* A direct call of the procedure by an API client
SyncFromAirtable(p, apiKey, snap) ==
    /\ p \in ApiCallers
    /\ Numbered(p)
    /\ SyncStart(p, UserOf(p), apiKey, snap)
    /\ UNCHANGED <<ui, record, evaluation, listInput, listResult,
                   statsResult, trendsInput, trendsResult, lastCall>>

\* offset = data.offset taken as undefined whatever the page says
OffsetDropped(data) == Null

\* offset = data.offset: the token of the next request
NextOffset(data) == data.offset

\* One iteration of the do/while loop: a page arrives; on the last page the
\* empty check and the mapping follow. A rejected request ends the call; the
\* response stays on record with the caller's result
FetchLoop(p, transport) ==
    LET pr == procs[p]
        resp == AirtableFetch(pr.apiKey, pr.snap, pr.offset, transport)
        all == pr.allRecords \o resp.records
        offset == NextOffset(resp)
        failed(msg) == Failure("sync", cleanMessage(msg), 0)
    IN  /\ pr.pc = "fetch"
        /\ IF resp.error # Null
           THEN /\ procs' = [procs EXCEPT ![p] = Settle(failed(Val(resp.error)))]
                /\ ui' = OnSettled(p, failed(Val(resp.error)))
           ELSE IF ~resp.ok
           THEN /\ procs' = [procs EXCEPT ![p] =
                      [Settle(failed(RejectedError(resp)))
                          EXCEPT !.response = Some(resp)]]
                /\ ui' = OnSettled(p, failed(RejectedError(resp)))
           ELSE IF offset # Null
           THEN /\ procs' = [procs EXCEPT ![p].allRecords = all,
                                          ![p].response = Some(resp),
                                          ![p].offset = offset]
                /\ ui' = ui
           ELSE IF Len(all) = 0
           THEN /\ procs' = [procs EXCEPT ![p] = Settle(failed(ErrEmptyTable))]
                /\ ui' = OnSettled(p, failed(ErrEmptyTable))
           ELSE /\ procs' = [procs EXCEPT
                      ![p].allRecords = all, ![p].offset = Null,
                      ![p].response = Some(resp),
                      ![p].evaluations =
                          [k \in 1..Len(all) |-> mapAirtableToEvaluation(all[k])],
                      ![p].i = 1, ![p].pc = "upsert"]
                /\ ui' = ui
        /\ UNCHANGED <<clock, lastSync, requests,
                       record, evaluation, listInput, listResult,
                   statsResult, trendsInput, trendsResult, lastCall>>

\* an iteration that saves the records of its page as soon as they arrive
FetchPageSaving(p, transport) ==
    LET pr == procs[p]
        resp == AirtableFetch(pr.apiKey, pr.snap, pr.offset, transport)
        saved == bulkUpsertCallEvaluations(rows, nextId, clock,
                    [k \in 1..Len(resp.records) |->
                        mapAirtableToEvaluation(resp.records[k])])
    IN  /\ FetchLoop(p, transport)
        /\ rows' = saved.rows
        /\ nextId' = saved.nextId

\* The loop only pushes the page's records on allRecords: the store is not
\* touched before the loop is over
FetchPage(p, transport) ==
    /\ FetchLoop(p, transport)
    /\ UNCHANGED <<rows, nextId>>

\* One iteration of bulkUpsertCallEvaluations' loop: one upsert statement; after
\* the last one the procedure returns { success, recordsImported }
Upsert(p, dbOk) ==
    LET pr == procs[p]
        e == pr.evaluations[pr.i]
        inserts == ~\E r \in rows : r.callId = e.callId
        last == pr.i = Len(pr.evaluations)
        done == Success("sync", Len(pr.evaluations), pr.i)
        failed == Failure("sync", cleanMessage(SaveError(ErrNoDatabase)),
                          pr.i - 1)
    IN  /\ pr.pc = "upsert"
        /\ IF ~dbOk
           THEN /\ procs' = [procs EXCEPT ![p] = Settle(failed)]
                /\ ui' = OnSettled(p, failed)
                /\ UNCHANGED <<rows, nextId, lastSync>>
           ELSE /\ rows' = upsertCallEvaluation(rows, nextId, clock, e)
                /\ nextId' = IF inserts THEN nextId + 1 ELSE nextId
                /\ procs' = [Disturb(procs, p) EXCEPT ![p] =
                      IF last THEN Settle(done) ELSE [pr EXCEPT !.i = pr.i + 1]]
                /\ ui' = IF last THEN OnSettled(p, done) ELSE ui
                /\ lastSync' = IF last /\ pr.alone
                               THEN Some([snap |-> pr.snap,
                                          count |-> Cardinality(rows'),
                                          prev |-> pr.prev])
                               ELSE Null
        /\ UNCHANGED <<clock, requests, record, evaluation, listInput, listResult,
                   statsResult, trendsInput, trendsResult, lastCall>>

\* evaluations.clearAll: deleteAllCallEvaluations
ClearAll(p, dbOk) ==
    /\ p \in ApiCallers
    /\ Numbered(p)
    /\ procs[p].pc = "idle"
    /\ publicProcedure(UserOf(p))
    /\ requests < MaxRequests
    /\ requests' = requests + 1
    /\ IF dbOk
       THEN /\ rows' = {}
            /\ procs' = [Disturb(procs, p) EXCEPT ![p] =
                            Settle(Success("clearAll", 0, Cardinality(rows)))]
            /\ lastSync' = Null
       ELSE /\ procs' = [procs EXCEPT ![p] =
                            Settle(Failure("clearAll", ErrNoDatabase, 0))]
            /\ UNCHANGED <<rows, lastSync>>
    /\ UNCHANGED <<nextId, clock, ui, record, evaluation, listInput, listResult,
                   statsResult, trendsInput, trendsResult, lastCall>>

\* Time passes on the storage engine's clock
Tick ==
    /\ clock < MaxClock
    /\ clock' = clock + 1
    /\ UNCHANGED <<rows, nextId, procs, lastSync, requests, ui,
                   record, evaluation, listInput, listResult,
                   statsResult, trendsInput, trendsResult, lastCall>>

----------------------------------------------------------------------------
(* Home page: the sync dialog *)

\* apiKey.trim() is non-empty
TrimNonEmpty(s) == \E k \in 1..Len(s) : s[k] # " "

\* The Sincronizar button of the filter bar
handleOpenSyncDialog ==
    /\ ui' = IF ~ui.isAuthenticated
             THEN [ui EXCEPT !.toast = "loginRequired"]
             ELSE [ui EXCEPT !.syncResult = Null, !.isSyncDialogOpen = TRUE]
    /\ UNCHANGED <<rows, nextId, clock, procs, lastSync, requests,
                   record, evaluation, listInput, listResult,
                   statsResult, trendsInput, trendsResult, lastCall>>

\* SyncDialog.handleClose
handleClose ==
    /\ ui.isSyncDialogOpen
    /\ ~Active(Browser)
    /\ ui' = [ui EXCEPT !.isSyncDialogOpen = FALSE]
    /\ UNCHANGED <<rows, nextId, clock, procs, lastSync, requests,
                   record, evaluation, listInput, listResult,
                   statsResult, trendsInput, trendsResult, lastCall>>

\* SyncDialog.handleSync and Home.handleSync: the dialog's Sincronizar button
handleSync(apiKey, snap) ==
    /\ ui.isSyncDialogOpen
    /\ TrimNonEmpty(apiKey)
    /\ ~Active(Browser)
    /\ SyncStart(Browser, IF ui.isAuthenticated THEN TestUser ELSE NoUser,
                 apiKey, snap)
    /\ ui' = [ui EXCEPT !.syncResult = Null]
    /\ UNCHANGED <<record, evaluation, listInput, listResult,
                   statsResult, trendsInput, trendsResult, lastCall>>

----------------------------------------------------------------------------
(* The system: API callers importing and clearing concurrently *)

ApiKeys == {PAT_KEY, TEST_KEY}

NoRecord == [id |-> <<>>, fields |-> NoFields]

HomeInit(auth) ==
    [isAuthenticated |-> auth, isSyncDialogOpen |-> FALSE,
     syncResult |-> Null, toast |-> "none"]

InitStore ==
    /\ rows = {}
    /\ nextId = 1
    /\ clock = 0
    /\ procs = [p \in Callers |-> IdleProc]
    /\ lastSync = Null
    /\ requests = 0

InitPure ==
    /\ record = NoRecord
    /\ evaluation = Null
    /\ listInput = Null
    /\ listResult = Null
    /\ statsResult = Null
    /\ trendsInput = Null
    /\ trendsResult = Null
    /\ lastCall = Null

Init ==
    /\ InitStore
    /\ InitPure
    /\ ui = HomeInit(FALSE)

Next ==
    \/ \E p \in ApiCallers, apiKey \in ApiKeys, snap \in 1..Len(Snapshots) :
          SyncFromAirtable(p, apiKey, snap)
    \/ \E p \in ApiCallers, transport \in Transports : FetchPage(p, transport)
    \/ \E p \in ApiCallers, dbOk \in BOOLEAN : Upsert(p, dbOk)
    \/ \E p \in ApiCallers, dbOk \in BOOLEAN : ClearAll(p, dbOk)
    \/ Tick

Spec == Init /\ [][Next]_vars

\* One client importing, call after call, where every awaited fetch is
\* answered: a call waiting in its loop for a page gets a response, whatever it
\* is
ClientStep(keys) ==
    \/ \E apiKey \in keys, snap \in 1..Len(Snapshots) :
          SyncFromAirtable(1, apiKey, snap)
    \/ \E transport \in Transports : FetchPage(1, transport)
    \/ \E dbOk \in BOOLEAN : Upsert(1, dbOk)
    \/ Tick

SyncFairNext == ClientStep(ApiKeys)

SyncFairSpec ==
    /\ Init
    /\ [][SyncFairNext]_vars
    /\ WF_vars(\E transport \in Transports : FetchPage(1, transport))

\* One client importing with any text as its key, a long one with a line
\* break included
ClientNext == ClientStep(ApiKeys \cup {LONG_KEY})

ClientSpec == Init /\ [][ClientNext]_vars

----------------------------------------------------------------------------
(* The Home page with its one syncMutation *)

UIInit ==
    /\ InitStore
    /\ InitPure
    /\ ui \in {HomeInit(auth) : auth \in BOOLEAN}

UINext ==
    \/ handleOpenSyncDialog
    \/ handleClose
    \/ \E apiKey \in ApiKeys \cup {BLANK_KEY}, snap \in 1..Len(Snapshots) :
          handleSync(apiKey, snap)
    \/ \E transport \in Transports : FetchPage(Browser, transport)
    \/ \E dbOk \in BOOLEAN : Upsert(Browser, dbOk)

UISpec == UIInit /\ [][UINext]_vars

----------------------------------------------------------------------------
(* Filter / sort query builder: getFilteredCallEvaluations *)

\* The characters of the model in the order of the column collation (binary)
CharOrder == <<" ","%","-","0","1","2","3","4","5","6","7","8","9",
               "A","B","C","D","E","F","G","H","I","J","K","L","M",
               "N","O","P","Q","R","S","T","U","V","W","X","Y","Z","_",
               "a","b","c","d","e","f","g","h","i","j","k","l","m",
               "n","o","p","q","r","s","t","u","v","w","x","y","z">>

CharCode(c) == CHOOSE k \in 1..Len(CharOrder) : CharOrder[k] = c

\* SQL  s LIKE pat : % matches any run of characters, _ any one character
RECURSIVE LikeFrom(_, _, _, _)
LikeFrom(s, i, pat, j) ==
    IF j > Len(pat) THEN i > Len(s)
    ELSE IF pat[j] = "%"
         THEN \E k \in i..(Len(s) + 1) : LikeFrom(s, k, pat, j + 1)
    ELSE IF i > Len(s) THEN FALSE
    ELSE IF pat[j] = "_" THEN LikeFrom(s, i + 1, pat, j + 1)
    ELSE s[i] = pat[j] /\ LikeFrom(s, i + 1, pat, j + 1)

\* like(column, pattern): NULL is not like anything
like(col, pat) == col # Null /\ LikeFrom(Val(col), 1, pat, 1)

\* eq / gte / lte (column, value): a comparison with NULL is not true
eq(col, v) == col # Null /\ Val(col) = v
gte(col, v) == col # Null /\ Val(col) >= v
lte(col, v) == col # Null /\ Val(col) <= v

\* A DECIMAL(5,2) column (hundredths) against number.toString() (thousandths)
gteDecimal(col, n) == col # Null /\ Val(col) * 10 >= n
lteDecimal(col, n) == col # Null /\ Val(col) * 10 <= n

\* The condition each filter field pushes, evaluated on one row
SearchCondition(term, r) ==
    LET searchTerm == <<"%">> \o term \o <<"%">> IN
    \/ like(Some(r.callId), searchTerm)
    \/ like(r.operatorName, searchTerm)
    \/ like(r.scenarioName, searchTerm)
    \/ like(r.feedback, searchTerm)
OperatorCondition(v, r) == eq(r.operatorName, v)
ProcesoCondition(v, r) == eq(r.proceso, v)
PriorityCondition(v, r) == eq(r.priority, v)
ScenarioCondition(v, r) == eq(r.scenarioId, v)
MinScoreCondition(v, r) == gteDecimal(r.averageScore, v)
MaxScoreCondition(v, r) == lteDecimal(r.averageScore, v)
StartDateCondition(v, r) == gte(r.evaluatedAt, v)
EndDateCondition(v, r) == lte(r.evaluatedAt, v)

\* Mutant: the score bounds tested for truthiness, so that a bound of 0 is dropped
whereClauseTruthyScores(filters, r) ==
    /\ TruthyStr(filters.search) => SearchCondition(Val(filters.search), r)
    /\ TruthyStr(filters.operatorName) =>
          OperatorCondition(Val(filters.operatorName), r)
    /\ TruthyStr(filters.proceso) => ProcesoCondition(Val(filters.proceso), r)
    /\ TruthyStr(filters.priority) => PriorityCondition(Val(filters.priority), r)
    /\ TruthyStr(filters.scenarioId) => ScenarioCondition(Val(filters.scenarioId), r)
    /\ TruthyNum(filters.minScore) => MinScoreCondition(Val(filters.minScore), r)
    /\ TruthyNum(filters.maxScore) => MaxScoreCondition(Val(filters.maxScore), r)
    /\ filters.startDate # Null => StartDateCondition(Val(filters.startDate), r)
    /\ filters.endDate # Null => EndDateCondition(Val(filters.endDate), r)

\* Mutant: the conditions combined with or(...) instead of and(...)
whereClauseOr(filters, r) ==
    LET pushed ==
          {SearchCondition(Val(filters.search), r) : x \in {1} \cap
                 {IF TruthyStr(filters.search) THEN 1 ELSE 0}}
          \cup {OperatorCondition(Val(filters.operatorName), r) : x \in {1} \cap
                 {IF TruthyStr(filters.operatorName) THEN 1 ELSE 0}}
          \cup {ProcesoCondition(Val(filters.proceso), r) : x \in {1} \cap
                 {IF TruthyStr(filters.proceso) THEN 1 ELSE 0}}
          \cup {PriorityCondition(Val(filters.priority), r) : x \in {1} \cap
                 {IF TruthyStr(filters.priority) THEN 1 ELSE 0}}
          \cup {ScenarioCondition(Val(filters.scenarioId), r) : x \in {1} \cap
                 {IF TruthyStr(filters.scenarioId) THEN 1 ELSE 0}}
          \cup {MinScoreCondition(Val(filters.minScore), r) : x \in {1} \cap
                 {IF filters.minScore # Null THEN 1 ELSE 0}}
          \cup {MaxScoreCondition(Val(filters.maxScore), r) : x \in {1} \cap
                 {IF filters.maxScore # Null THEN 1 ELSE 0}}
          \cup {StartDateCondition(Val(filters.startDate), r) : x \in {1} \cap
                 {IF filters.startDate # Null THEN 1 ELSE 0}}
          \cup {EndDateCondition(Val(filters.endDate), r) : x \in {1} \cap
                 {IF filters.endDate # Null THEN 1 ELSE 0}}
    IN  pushed = {} \/ TRUE \in pushed

\* conditions.length > 0 ? and(...conditions) : undefined, on one row: each
\* `if (filters.x)` pushes its condition, and the pushed ones are and-ed
whereClause(filters, r) ==
    /\ TruthyStr(filters.search) => SearchCondition(Val(filters.search), r)
    /\ TruthyStr(filters.operatorName) =>
          OperatorCondition(Val(filters.operatorName), r)
    /\ TruthyStr(filters.proceso) => ProcesoCondition(Val(filters.proceso), r)
    /\ TruthyStr(filters.priority) => PriorityCondition(Val(filters.priority), r)
    /\ TruthyStr(filters.scenarioId) => ScenarioCondition(Val(filters.scenarioId), r)
    /\ filters.minScore # Null => MinScoreCondition(Val(filters.minScore), r)
    /\ filters.maxScore # Null => MaxScoreCondition(Val(filters.maxScore), r)
    /\ filters.startDate # Null => StartDateCondition(Val(filters.startDate), r)
    /\ filters.endDate # Null => EndDateCondition(Val(filters.endDate), r)

\* The columns the switch on filters.sortBy knows
SortColumns ==
    {"operatorName", "proceso", "priority", "averageScore", "adherenceScore",
     "sentimentScore", "correctnessScore", "speedScore", "durationSeconds",
     "evaluatedAt"}

\* The columns whose header in the data table is a SortableHeader
TableSortColumns ==
    {"callId", "operatorName", "scenarioName", "proceso", "priority",
     "adherenceScore", "sentimentScore", "correctnessScore", "speedScore",
     "averageScore", "durationSeconds", "evaluatedAt"}

\* The position of an ENUM value in its declaration: what MySQL orders it by
EnumIndex(enum, v) == CHOOSE k \in 1..Len(enum) : enum[k] = v
ProcesoOrder == KnownProcesos \o <<DESCONOCIDO>>
PriorityOrder == <<P0, P1>>

\* The value ORDER BY compares, as a sequence of integers (NULL stays NULL)
OrderKey(r, col) ==
    CASE col = "operatorName" ->
            IF r.operatorName = Null THEN Null
            ELSE Some([k \in 1..Len(Val(r.operatorName)) |->
                          CharCode(Val(r.operatorName)[k])])
      [] col = "scenarioName" ->
            IF r.scenarioName = Null THEN Null
            ELSE Some([k \in 1..Len(Val(r.scenarioName)) |->
                          CharCode(Val(r.scenarioName)[k])])
      [] col = "callId" ->
            Some([k \in 1..Len(r.callId) |-> CharCode(r.callId[k])])
      [] col = "proceso" ->
            IF r.proceso = Null THEN Null
            ELSE Some(<<EnumIndex(ProcesoOrder, Val(r.proceso))>>)
      [] col = "priority" ->
            IF r.priority = Null THEN Null
            ELSE Some(<<EnumIndex(PriorityOrder, Val(r.priority))>>)
      [] col = "createdAt" -> Some(<<r.createdAt>>)
      [] OTHER -> IF r[col] = Null THEN Null ELSE Some(<<Val(r[col])>>)

RECURSIVE SeqLess(_, _)
SeqLess(a, b) ==
    IF b = <<>> THEN FALSE
    ELSE IF a = <<>> THEN TRUE
    ELSE IF Head(a) # Head(b) THEN Head(a) < Head(b)
    ELSE SeqLess(Tail(a), Tail(b))

\* NULL sorts before every value
KeyLess(x, y) ==
    IF x = Null THEN y # Null
    ELSE y # Null /\ SeqLess(Val(x), Val(y))

\* asc(column) / desc(column): must a come before b
asc(col, a, b) == KeyLess(OrderKey(a, col), OrderKey(b, col))
desc(col, a, b) == KeyLess(OrderKey(b, col), OrderKey(a, col))

\* Mutant: the sort order ignored, every column sorted descending
orderByAlwaysDesc(filters, a, b) ==
    IF filters.sortBy # Null /\ Val(filters.sortBy) \in SortColumns
    THEN desc(Val(filters.sortBy), a, b)
    ELSE desc("createdAt", a, b)

\* The ORDER BY clause chosen by the switch: must a come before b
orderByClause(filters, a, b) ==
    IF filters.sortBy # Null /\ Val(filters.sortBy) \in SortColumns
    THEN IF filters.sortOrder = Some("asc")
         THEN asc(Val(filters.sortBy), a, b)
         ELSE desc(Val(filters.sortBy), a, b)
    ELSE desc("createdAt", a, b)

\* Every sequence of the rows of S that respects the ORDER BY clause: the
\* engine is free in the order of rows that tie
RECURSIVE Orderings(_, _)
Orderings(S, filters) ==
    IF S = {} THEN {<<>>}
    ELSE UNION {{<<m>> \o t : t \in Orderings(S \ {m}, filters)} :
                  m \in {x \in S : \A y \in S : ~orderByClause(filters, y, x)}}

\* db.select().from(callEvaluations).where(whereClause).orderBy(orderByClause):
\* the results the engine may return
getFilteredCallEvaluations(table, filters) ==
    Orderings({r \in table : whereClause(filters, r)}, filters)

\* new Date(s) for a date-only string "YYYY-MM-DD", modelled as its day number
NewDateOfDay(d) == d * TicksPerDay

\* evaluations.list: the input turned into CallEvaluationFilters
ListFilters(input) ==
    [search |-> input.search, operatorName |-> input.operatorName,
     proceso |-> input.proceso, priority |-> input.priority,
     scenarioId |-> input.scenarioId,
     minScore |-> input.minScore, maxScore |-> input.maxScore,
     startDate |-> IF input.startDate # Null
                   THEN Some(NewDateOfDay(Val(input.startDate))) ELSE Null,
     endDate |-> IF input.endDate # Null
                 THEN Some(NewDateOfDay(Val(input.endDate))) ELSE Null,
     sortBy |-> input.sortBy, sortOrder |-> input.sortOrder]

list(table, input) == getFilteredCallEvaluations(table, ListFilters(input))

----------------------------------------------------------------------------
(* Aggregates: getCallEvaluationStats *)

TopN == 5    \* .slice(0, 5)

\* A DECIMAL column arrives as a string such as "0.00": non-null is truthy
TruthyDecimal(o) == o # Null

\* parseFloat of a score column, a missing score taken as 0 (hundredths)
ScoreOrZero(r, col) == IF TruthyDecimal(r[col]) THEN Val(r[col]) ELSE 0

\* reduce((sum, e) => sum + score, 0) over a set of rows
RECURSIVE SumScore(_, _)
SumScore(S, col) ==
    IF S = {} THEN 0
    ELSE LET r == CHOOSE x \in S : TRUE
         IN  ScoreOrZero(r, col) + SumScore(S \ {r}, col)

\* A quotient total / count of the program, kept as the pair
Quotient(total, count) == [total |-> total, count |-> count]
QuotientLess(a, b) == a.total * b.count < b.total * a.count
QuotientEq(a, b) == a.total * b.count = b.total * a.count

\* Math.round(x * 100) / 100 of x = total / count, in hundredths: half goes up
RoundHundredths(total, count) == (2 * total + count) \div (2 * count)

\* Mutant: every row counted in the divisor, a missing score as 0
overallAverageNullAsZero(allEvaluations) ==
    IF allEvaluations # {}
    THEN RoundHundredths(SumScore(allEvaluations, "averageScore"),
                         Cardinality(allEvaluations))
    ELSE 0

\* scoresWithValues ... Math.round(overallAverageScore * 100) / 100
overallAverageScore(allEvaluations) ==
    LET scoresWithValues == {e \in allEvaluations : e.averageScore # Null}
    IN  IF Cardinality(scoresWithValues) > 0
        THEN RoundHundredths(SumScore(scoresWithValues, "averageScore"),
                             Cardinality(scoresWithValues))
        ELSE 0

\* Mutant: only the rows with an average score counted
totalCallsScored(allEvaluations) ==
    Cardinality({e \in allEvaluations : e.averageScore # Null})

\* allEvaluations.length
totalCalls(allEvaluations) == Cardinality(allEvaluations)

\* procesoDistribution / priorityDistribution: the count of each value present
procesoDistribution(allEvaluations) ==
    LET procesoOf(e) == IF TruthyStr(e.proceso) THEN Val(e.proceso) ELSE DESCONOCIDO
    IN  [v \in {procesoOf(e) : e \in allEvaluations} |->
            Cardinality({e \in allEvaluations : procesoOf(e) = v})]

priorityDistribution(allEvaluations) ==
    LET priorityOf(e) == IF TruthyStr(e.priority) THEN Val(e.priority) ELSE P0
    IN  [v \in {priorityOf(e) : e \in allEvaluations} |->
            Cardinality({e \in allEvaluations : priorityOf(e) = v})]

CONSTRUCTOR == <<"c","o","n","s","t","r","u","c","t","o","r">>

\* Names that an object literal {} inherits from Object.prototype with a
\* truthy value
ObjectPrototypeKeys == {CONSTRUCTOR}

\* The own keys of a Record that starts as {} and is filled under
\* `if (!record[key]) record[key] = ...`: for an inherited name the test finds
\* the inherited value, no own entry is made, and Object.entries /
\* Object.values do not list it
OwnKeys(keys) == keys \ ObjectPrototypeKeys

\* operatorScores mapped to { name, averageScore, callCount }
operatorScores(allEvaluations) ==
    LET scored == {e \in allEvaluations :
                      TruthyStr(e.operatorName) /\ TruthyDecimal(e.averageScore)}
        of(name) == {e \in scored : e.operatorName = Some(name)}
    IN  {[name |-> name,
          averageScore |-> Quotient(SumScore(of(name), "averageScore"),
                                    Cardinality(of(name))),
          callCount |-> Cardinality(of(name))] :
            name \in OwnKeys({Val(e.operatorName) : e \in scored})}

\* The sequences of the entries of S in which no entry comes after one with a
\* smaller mean (descending = TRUE) or a larger one (FALSE); entries with equal
\* means come in the order the unordered SELECT delivered their rows
RECURSIVE SortedByMean(_, _)
SortedByMean(S, descending) ==
    IF S = {} THEN {<<>>}
    ELSE UNION {{<<m>> \o t : t \in SortedByMean(S \ {m}, descending)} :
                  m \in {x \in S : \A y \in S :
                            IF descending
                            THEN ~QuotientLess(x.averageScore, y.averageScore)
                            ELSE ~QuotientLess(y.averageScore, x.averageScore)}}

FirstN(q, n) == SubSeq(q, 1, IF Len(q) < n THEN Len(q) ELSE n)

\* Mutant: the operators sorted by ascending mean
topOperatorsAscending(allEvaluations) ==
    {FirstN(q, TopN) : q \in SortedByMean(operatorScores(allEvaluations), FALSE)}

\* .sort((a, b) => b.averageScore - a.averageScore).slice(0, 5): the outcomes
topOperators(allEvaluations) ==
    {FirstN(q, TopN) : q \in SortedByMean(operatorScores(allEvaluations), TRUE)}

\* getCallEvaluationStats: null without a database, else the possible answers
getCallEvaluationStats(table, dbOk) ==
    IF ~dbOk THEN {Null}
    ELSE {Some([totalCalls |-> totalCalls(table),
                overallAverageScore |-> overallAverageScore(table),
                procesoDistribution |-> procesoDistribution(table),
                priorityDistribution |-> priorityDistribution(table),
                topOperators |-> top,
                uniqueOperators |->
                    {Val(e.operatorName) : e \in {x \in table : x.operatorName # Null}},
                uniqueScenarios |->
                    {Val(e.scenarioId) : e \in {x \in table : x.scenarioId # Null}}]) :
            top \in topOperators(table)}

----------------------------------------------------------------------------
(* Time series: getScoreTrends *)

UNKNOWN == <<"U","n","k","n","o","w","n">>

\* The zones the server may run in: the ticks its local time is behind UTC
ServerZones == {0, 1}

\* new Date(filter.endDate + 'T23:59:59'): a date-time without zone is local
\* time, and 23:59:59 is the last tick of that local day
EndOfDayLocal(d, zone) == d * TicksPerDay + (TicksPerDay - 1) + zone

\* e.evaluatedAt || e.createdAt
DateObj(e) == IF e.evaluatedAt # Null THEN Val(e.evaluatedAt) ELSE e.createdAt

\* evalDate.toISOString().split('T')[0]: the UTC day of an instant
ISODate(t) == t \div TicksPerDay

\* The rows that pass the date checks of the forEach
Participating(allEvaluations, filter, zone) ==
    LET startDate == IF filter.startDate # Null
                     THEN Some(NewDateOfDay(Val(filter.startDate))) ELSE Null
        endDate == IF filter.endDate # Null
                   THEN Some(EndOfDayLocal(Val(filter.endDate), zone)) ELSE Null
    IN  {e \in allEvaluations :
            /\ ~(startDate # Null /\ DateObj(e) < Val(startDate))
            /\ ~(endDate # Null /\ DateObj(e) > Val(endDate))}

\* e.operatorName || 'Unknown'
OpName(e) == IF TruthyStr(e.operatorName) THEN Val(e.operatorName) ELSE UNKNOWN

\* Mutant: a missing score left out of its mean instead of counted as 0
TrendMeanSkipNull(S, col) ==
    Quotient(SumScore(S, col),
             IF \A e \in S : e[col] = Null THEN 1
             ELSE Cardinality({e \in S : e[col] # Null}))

\* data.scores.reduce((sum, s) => sum + s.x, 0) / data.scores.length
TrendMean(S, col) == Quotient(SumScore(S, col), Cardinality(S))

\* One TrendDataPoint from the rows grouped under one date
TrendDataPoint(date, S) ==
    [date |-> date,
     averageScore |-> TrendMean(S, "averageScore"),
     adherenceScore |-> TrendMean(S, "adherenceScore"),
     sentimentScore |-> TrendMean(S, "sentimentScore"),
     correctnessScore |-> TrendMean(S, "correctnessScore"),
     speedScore |-> TrendMean(S, "speedScore"),
     callCount |-> Cardinality(S)]

\* Mutant: the points sorted by descending date
RECURSIVE SortByDateDescending(_)
SortByDateDescending(points) ==
    IF points = {} THEN <<>>
    ELSE LET m == CHOOSE x \in points : \A y \in points : y.date <= x.date
         IN  <<m>> \o SortByDateDescending(points \ {m})

\* .sort((a, b) => a.date.localeCompare(b.date)) on points of distinct dates
RECURSIVE SortByDate(_)
SortByDate(points) ==
    IF points = {} THEN <<>>
    ELSE LET m == CHOOSE x \in points : \A y \in points : x.date <= y.date
         IN  <<m>> \o SortByDate(points \ {m})

\* Object.entries(byDate).map(...).sort(...) over a set of grouped rows
TrendSeries(S) ==
    SortByDate({TrendDataPoint(d, {e \in S : ISODate(DateObj(e)) = d}) :
                   d \in {ISODate(DateObj(e)) : e \in S}})

\* getScoreTrends: { overall, byOperator }; byOperator as the set of its series
getScoreTrends(table, filter, zone, dbOk) ==
    IF ~dbOk THEN [overall |-> <<>>, byOperator |-> {}]
    ELSE LET S == Participating(table, filter, zone)
             names == {n \in OwnKeys({OpName(e) : e \in S}) :
                          ~TruthyStr(filter.operatorName)
                          \/ n = Val(filter.operatorName)}
         IN  [overall |-> TrendSeries(S),
              byOperator |->
                 {op \in {[operatorName |-> n,
                           data |-> TrendSeries({e \in S : OpName(e) = n})] :
                             n \in names} :
                     Len(op.data) > 0}]

----------------------------------------------------------------------------
(* The mapper on arbitrary records: one record is mapped, then stored *)

ProcesoInputs ==
    {Null, Some(<<>>),
     Some(<<"c","o","b","r","o","s">>), Some(<<"C","o","b","r","o","s">>),
     Some(<<"C","O","B","R","O","S"," ">>),
     Some(<<"g","e","s","t","i","o","n"," ","s","i","n","g","u","l","a","r">>),
     Some(<<"g","e","s","t","i","o","n">>),
     Some(<<"d","e","s","c","o","n","o","c","i","d","o">>),
     Some(<<"V","e","n","t","a","s">>)}
    \cup {Some(KnownProcesos[k]) : k \in 1..Len(KnownProcesos)}
    \cup {Some(DESCONOCIDO)}

PriorityInputs ==
    {Null, Some(<<>>), Some(P1), Some(P0), Some(<<"p","1">>),
     Some(<<"P","1"," ">>), Some(<<"P","2">>), Some(<<"P","1","0">>)}

MapperRecords ==
    {[id |-> id,
      fields |-> Merge(NoFields,
         [call_id |-> c, proceso |-> p, priority |-> q,
          average_score |-> a, duration_seconds |-> d])] :
        id \in {REC_A, REC_B},
        c \in {Null, Some(<<>>), Some(CALL1)},
        p \in ProcesoInputs, q \in PriorityInputs,
        a \in {Null, Some(0), Some(79995)},
        d \in {Null, Some(0)}}

MapperInit ==
    /\ InitStore
    /\ ui = HomeInit(FALSE)
    /\ record \in MapperRecords
    /\ evaluation = Null
    /\ listInput = Null
    /\ listResult = Null
    /\ statsResult = Null
    /\ trendsInput = Null
    /\ trendsResult = Null
    /\ lastCall = Null

\* allRecords.map(mapAirtableToEvaluation), on one record
MapRecord ==
    /\ evaluation = Null
    /\ evaluation' = Some(mapAirtableToEvaluation(record))
    /\ UNCHANGED <<rows, nextId, clock, procs, lastSync, requests, ui,
                   record, listInput, listResult,
                   statsResult, trendsInput, trendsResult, lastCall>>

\* upsertCallEvaluation of the mapped record
StoreEvaluation ==
    /\ evaluation # Null
    /\ rows = {}
    /\ rows' = upsertCallEvaluation(rows, nextId, clock, Val(evaluation))
    /\ nextId' = nextId + 1
    /\ UNCHANGED <<clock, procs, lastSync, requests, ui,
                   record, evaluation, listInput, listResult,
                   statsResult, trendsInput, trendsResult, lastCall>>

MapperNext == MapRecord \/ StoreEvaluation

MapperSpec == MapperInit /\ [][MapperNext]_vars

----------------------------------------------------------------------------
(* evaluations.list on stores filled by imports: one query, one result *)

MaxRows == 4          \* rows in the largest store queried
MaxConditions == 3    \* filter conditions supplied together in one query

CALL3 == <<"c","3">>
CALL4 == <<"c","4">>
CALL5 == <<"c","5">>
REC_D == <<"r","e","c","D">>
REC_E == <<"r","e","c","E">>
REC_F == <<"r","e","c","F">>
SCN1 == <<"S","1">>
SCN2 == <<"S","2">>

\* The records the queried stores were imported from
QueryRecords ==
    << [RecA55 EXCEPT !.fields.scenario_id = Some(SCN1),
                      !.fields.priority = Some(P1),
                      !.fields.adherence_score = Some(50000),
                      !.fields.duration_seconds = Some(30),
                      !.fields.feedback = Some(<<"o","k","_">>)],
       RecB,
       [id |-> REC_C,
        fields |-> Merge(NoFields,
           [call_id |-> Some(CALL2), operator_name |-> Some(ANA),
            scenario_id |-> Some(SCN1), proceso |-> Some(FACTURACION),
            average_score |-> Some(80000), adherence_score |-> Some(50000),
            duration_seconds |-> Some(20),
            evaluated_at |-> Some([date |-> 2, time |-> 0])])],
       [id |-> REC_D,
        fields |-> Merge(NoFields,
           [call_id |-> Some(CALL3), scenario_id |-> Some(SCN2),
            proceso |-> Some(COBROS), priority |-> Some(P1),
            average_score |-> Some(95000), sentiment_score |-> Some(10000),
            evaluated_at |-> Some([date |-> 2, time |-> 1])])],
       [id |-> REC_E,
        fields |-> Merge(NoFields,
           [call_id |-> Some(CALL4), operator_name |-> Some(LUIS),
            average_score |-> Some(0),
            evaluated_at |-> Some([date |-> 1, time |-> 1])])],
       [id |-> REC_F,
        fields |-> Merge(NoFields,
           [call_id |-> Some(CALL5), operator_name |-> Some(ANA),
            average_score |-> Some(40000),
            evaluated_at |-> Some([date |-> 1, time |-> 0])])] >>

\* The store after importing the first n records, two per clock tick
RECURSIVE Imported(_)
Imported(n) ==
    IF n = 0 THEN {}
    ELSE upsertCallEvaluation(Imported(n - 1), n, n \div 2,
                              mapAirtableToEvaluation(QueryRecords[n]))

QueryStores ==
    {Imported(n) : n \in 0..(IF MaxRows < Len(QueryRecords)
                             THEN MaxRows ELSE Len(QueryRecords))}

NoListInput ==
    [search |-> Null, operatorName |-> Null, proceso |-> Null,
     priority |-> Null, scenarioId |-> Null, minScore |-> Null,
     maxScore |-> Null, startDate |-> Null, endDate |-> Null,
     sortBy |-> Null, sortOrder |-> Null]

FilterFields ==
    {"search", "operatorName", "proceso", "priority", "scenarioId",
     "minScore", "maxScore", "startDate", "endDate"}

\* The queries a client sends: the fields of the input schema, each optional
ListInputs ==
    {in \in
       [search : {Null, Some(<<>>), Some(<<"n","a">>), Some(<<"_">>)},
        operatorName : {Null, Some(ANA)},
        proceso : {Null, Some(COBROS)},
        priority : {Null, Some(P1)},
        scenarioId : {Null, Some(SCN1)},
        minScore : {Null, Some(0), Some(50000)},
        maxScore : {Null, Some(0), Some(80000)},
        startDate : {Null, Some(2)},
        endDate : {Null, Some(2)},
        sortBy : {Null} \cup {Some(c) : c \in SortColumns \cup TableSortColumns},
        sortOrder : {Null, Some("asc"), Some("desc")}] :
       /\ Cardinality({f \in FilterFields : in[f] # Null}) <= MaxConditions
       /\ in.sortBy = Null <=> in.sortOrder = Null}

QueryInit ==
    /\ rows \in QueryStores
    /\ nextId = Cardinality(rows) + 1
    /\ clock = MaxRows
    /\ procs = [p \in Callers |-> IdleProc]
    /\ lastSync = Null
    /\ requests = 0
    /\ ui = HomeInit(FALSE)
    /\ InitPure

\* evaluations.list answers one query
List(input) ==
    /\ listResult = Null
    /\ listInput' = Some(input)
    /\ \E result \in list(rows, input) : listResult' = Some(result)
    /\ UNCHANGED <<rows, nextId, clock, procs, lastSync, requests, ui,
                   record, evaluation, statsResult, trendsInput, trendsResult, lastCall>>

QueryNext ==
    \E input \in (IF listResult = Null THEN ListInputs ELSE {}) : List(input)

QuerySpec == QueryInit /\ [][QueryNext]_vars

----------------------------------------------------------------------------
(* evaluations.stats and evaluations.trends on a store that imports change *)

EVA == <<"E","v","a">>
LEO == <<"L","e","o">>
MAR == <<"M","a","r">>
SOL == <<"S","o","l">>
PAZ == <<"P","a","z">>

\* A record of the aggregated table: call id, operator, average and adherence
\* scores, evaluation instant
ScoredRecord(id, call, op, avg, adh, at) ==
    [id |-> id,
     fields |-> Merge(NoFields,
        [call_id |-> Some(call), operator_name |-> op,
         average_score |-> avg, adherence_score |-> adh,
         evaluated_at |-> at])]

\* The records the aggregated stores were imported from, in import order
StatsRecords ==
    << ScoredRecord(REC_A, <<"a","1">>, Some(ANA), Some(55000), Some(40000),
                    Some([date |-> 1, time |-> 0])),
       ScoredRecord(REC_B, <<"a","2">>, Some(LUIS), Null, Some(60000),
                    Some([date |-> 1, time |-> 1])),
       ScoredRecord(REC_C, <<"a","3">>, Some(ANA), Some(80000), Null,
                    Some([date |-> 1, time |-> 1])),
       ScoredRecord(REC_D, <<"a","4">>, Null, Some(95000), Null,
                    Some([date |-> 2, time |-> 0])),
       ScoredRecord(REC_E, <<"a","5">>, Some(EVA), Some(0), Some(0), Null),
       ScoredRecord(REC_F, <<"a","6">>, Some(LEO), Some(90000), Some(10000),
                    Some([date |-> 3, time |-> 0])),
       ScoredRecord(REC_F, <<"a","7">>, Some(MAR), Some(70000), Null,
                    Some([date |-> 2, time |-> 1])),
       ScoredRecord(REC_F, <<"a","8">>, Some(SOL), Some(70000), Null,
                    Some([date |-> 2, time |-> 1])),
       ScoredRecord(REC_F, <<"a","9">>, Some(LUIS), Some(60000), Null, Null),
       ScoredRecord(REC_F, <<"b","0">>, Some(PAZ), Some(60000), Null,
                    Some([date |-> 3, time |-> 0])) >>

\* The records imported while the store is observed: an edit of the first
\* record that removes its operator and average, a new one, and one of an
\* operator whose name every object inherits
StatsPool ==
    {ScoredRecord(REC_A, <<"a","1">>, Null, Null, Some(40000),
                  Some([date |-> 2, time |-> 0])),
     ScoredRecord(REC_E, <<"b","1">>, Some(UNKNOWN), Some(33330), Some(33330),
                  Some([date |-> 1, time |-> 0])),
     ScoredRecord(REC_D, <<"b","2">>, Some(CONSTRUCTOR), Some(70000), Null,
                  Some([date |-> 2, time |-> 0]))}

\* The store after importing the first n records, two per clock tick
RECURSIVE StatsImported(_)
StatsImported(n) ==
    IF n = 0 THEN {}
    ELSE upsertCallEvaluation(StatsImported(n - 1), n, n \div 2,
                              mapAirtableToEvaluation(StatsRecords[n]))

StatsStores == {StatsImported(n) : n \in 0..Len(StatsRecords)}

\* The inputs of evaluations.trends
TrendsFilters ==
    [operatorName : {Null, Some(<<>>), Some(ANA), Some(UNKNOWN)},
     startDate : {Null, Some(1), Some(2), Some(9)},
     endDate : {Null, Some(0), Some(1), Some(2)}]

StatsInit ==
    /\ rows \in StatsStores
    /\ nextId = Cardinality(rows) + 1
    /\ clock = Len(StatsRecords)
    /\ procs = [p \in Callers |-> IdleProc]
    /\ lastSync = Null
    /\ requests = 0
    /\ ui = HomeInit(FALSE)
    /\ InitPure

\* One upsert of an import
ImportRecord(rec) ==
    LET e == mapAirtableToEvaluation(rec) IN
    /\ requests < MaxRequests
    /\ requests' = requests + 1
    /\ rows' = upsertCallEvaluation(rows, nextId, clock, e)
    /\ nextId' = IF \E r \in rows : r.callId = e.callId THEN nextId ELSE nextId + 1
    /\ statsResult' = Null
    /\ trendsInput' = Null
    /\ trendsResult' = Null
    /\ UNCHANGED <<clock, procs, lastSync, ui, record, evaluation,
                   listInput, listResult, lastCall>>

\* clearAll with the database available
ClearStore ==
    /\ requests < MaxRequests
    /\ requests' = requests + 1
    /\ rows' = {}
    /\ statsResult' = Null
    /\ trendsInput' = Null
    /\ trendsResult' = Null
    /\ UNCHANGED <<nextId, clock, procs, lastSync, ui, record, evaluation,
                   listInput, listResult, lastCall>>

\* evaluations.stats, once on each state of the table
Stats(dbOk) ==
    /\ statsResult = Null /\ trendsResult = Null
    /\ \E answer \in getCallEvaluationStats(rows, dbOk) :
          statsResult' = Some(answer)
    /\ trendsInput' = Null
    /\ trendsResult' = Null
    /\ UNCHANGED <<rows, nextId, clock, procs, lastSync, requests, ui,
                   record, evaluation, listInput, listResult, lastCall>>

\* evaluations.trends on a server running in the given zone
Trends(filter, zone, dbOk) ==
    /\ statsResult = Null /\ trendsResult = Null
    /\ trendsInput' = Some([filter |-> filter, zone |-> zone, dbOk |-> dbOk])
    /\ trendsResult' = Some(getScoreTrends(rows, filter, zone, dbOk))
    /\ statsResult' = Null
    /\ UNCHANGED <<rows, nextId, clock, procs, lastSync, requests, ui,
                   record, evaluation, listInput, listResult, lastCall>>

StatsNext ==
    \/ \E rec \in StatsPool : ImportRecord(rec)
    \/ ClearStore
    \/ \E dbOk \in BOOLEAN : Stats(dbOk)
    \/ \E filter \in TrendsFilters, zone \in ServerZones, dbOk \in BOOLEAN :
          Trends(filter, zone, dbOk)

StatsSpec == StatsInit /\ [][StatsNext]_vars

----------------------------------------------------------------------------
(* The six procedures of evaluations, each call run on its own, under the
   conditions the deployment sets: the storage and the collation of the
   database *)

\* DATABASE_URL unset or unusable; set and the database answering; set and no
\* connection to be had
Storages == {"up", "notConfigured", "unreachable"}

\* getDb(): null without a usable DATABASE_URL, else the drizzle handle on the
\* pool, which connects only when a statement runs
getDb(storage) == IF storage = "notConfigured" THEN Null ELSE Some(storage)

\* A statement awaited on the handle rejects when no connection can be made
QueryRejects(db) == Val(db) = "unreachable"

ErrConnect == "connect ECONNREFUSED"

\* The default collation of the database: CREATE TABLE names none
Collations == {"utf8mb4_bin", "utf8mb4_general_ci"}

\* A text as the collation compares it
Collate(text, collation) ==
    IF collation = "utf8mb4_general_ci" THEN toUpperCase(text) ELSE text

CollateOpt(o, collation) ==
    IF o = Null THEN Null ELSE Some(Collate(Val(o), collation))

\* The text columns and the text values of a query as the collation compares
\* them
CollateRow(r, collation) ==
    [r EXCEPT !.callId = Collate(r.callId, collation),
              !.operatorName = CollateOpt(r.operatorName, collation),
              !.scenarioId = CollateOpt(r.scenarioId, collation),
              !.scenarioName = CollateOpt(r.scenarioName, collation),
              !.feedback = CollateOpt(r.feedback, collation)]

CollateFilters(filters, collation) ==
    [filters EXCEPT !.search = CollateOpt(filters.search, collation),
                    !.operatorName = CollateOpt(filters.operatorName, collation),
                    !.scenarioId = CollateOpt(filters.scenarioId, collation)]

\* What a call gives its caller: a value returned or an error thrown
Returned(v) == [threw |-> FALSE, value |-> v]
Thrown(message) == [threw |-> TRUE, value |-> message]

\* evaluations.list
listProcedure(table, input, storage, collation) ==
    LET db == getDb(storage)
        filters == ListFilters(input)
        selected ==
            {r \in table :
                whereClause(CollateFilters(filters, collation),
                            CollateRow(r, collation))}
    IN  IF db = Null THEN {Returned(<<>>)}
        ELSE IF QueryRejects(db) THEN {Thrown(ErrConnect)}
        ELSE {Returned(result) : result \in Orderings(selected, filters)}

\* evaluations.stats
statsProcedure(table, storage) ==
    LET db == getDb(storage)
    IN  IF db # Null /\ QueryRejects(db) THEN {Thrown(ErrConnect)}
        ELSE {Returned(answer) :
                 answer \in getCallEvaluationStats(table, db # Null)}

\* getCallEvaluationById: result[0] of the rows with the id, limit 1
getCallEvaluationById(table, id) ==
    IF \E r \in table : r.id = id
    THEN Some(CHOOSE r \in table : r.id = id) ELSE Null

\* evaluations.byId
byIdProcedure(table, id, storage) ==
    LET db == getDb(storage)
    IN  IF db = Null THEN Returned(Null)
        ELSE IF QueryRejects(db) THEN Thrown(ErrConnect)
        ELSE Returned(getCallEvaluationById(table, id))

\* evaluations.trends
trendsProcedure(table, filter, zone, storage) ==
    LET db == getDb(storage)
    IN  IF db # Null /\ QueryRejects(db) THEN Thrown(ErrConnect)
        ELSE Returned(getScoreTrends(table, filter, zone, db # Null))

\* a delete that removes nothing
deleteNone(table) == table

\* db.delete(callEvaluations)
deleteAllCallEvaluations(table) == {}

\* allRecords after the fetch loop on a table whose pages all arrive
RECURSIVE AllRecords(_)
AllRecords(pages) ==
    IF pages = <<>> THEN <<>> ELSE Head(pages) \o AllRecords(Tail(pages))

\* the record of the first table's first page after an edit that emptied its
\* operator, its scores and its date, served under another record id
RecAStripped ==
    [id |-> REC_C, fields |-> Merge(NoFields, [call_id |-> Some(CALL1)])]

\* The tables the service imports: the second has two records with the same
\* call_id on different pages
ServiceTables ==
    << << <<RecA55>>, <<RecB>> >>,
       << <<RecA80, RecB>>, <<RecAStripped>> >> >>

\* The inputs the service is called with
ServiceSearches ==
    {Null, Some(<<"a","N">>), Some(<<"n","a">>), Some(<<"%">>), Some(<<"_">>)}
ServiceListInputs ==
    {[NoListInput EXCEPT !.search = term] : term \in ServiceSearches}
ServiceIds == {1, 2, 9}
NoTrendsFilter == [operatorName |-> Null, startDate |-> Null, endDate |-> Null]

ServiceInit ==
    /\ InitStore
    /\ InitPure
    /\ ui = HomeInit(FALSE)

\* evaluations.syncFromAirtable with a key Airtable accepts, every page
\* arriving, and no other writer at work
ServiceSync(t, storage) ==
    LET allRecords == AllRecords(ServiceTables[t])
        evaluations ==
            [k \in 1..Len(allRecords) |-> mapAirtableToEvaluation(allRecords[k])]
        db == getDb(storage)
        dbError == IF db = Null THEN ErrNoDatabase ELSE ErrConnect
        saved == bulkUpsertCallEvaluations(rows, nextId, clock, evaluations)
        failed == db = Null \/ QueryRejects(db)
    IN  /\ requests < MaxRequests
        /\ requests' = requests + 1
        /\ rows' = IF failed THEN rows ELSE saved.rows
        /\ nextId' = IF failed THEN nextId ELSE saved.nextId
        /\ lastCall' = Some(
              [op |-> "syncFromAirtable", input |-> t, storage |-> storage,
               outcome |-> IF Len(allRecords) = 0
                           THEN Thrown(cleanMessage(ErrEmptyTable))
                           ELSE IF failed
                           THEN Thrown(cleanMessage(SaveError(dbError)))
                           ELSE Returned(Len(evaluations))])
        /\ UNCHANGED <<clock, procs, lastSync, ui, record, evaluation,
                       listInput, listResult, statsResult, trendsInput,
                       trendsResult>>

\* evaluations.clearAll
ServiceClearAll(storage) ==
    LET db == getDb(storage)
        failed == db = Null \/ QueryRejects(db)
    IN  /\ requests < MaxRequests
        /\ requests' = requests + 1
        /\ rows' = IF failed THEN rows ELSE deleteAllCallEvaluations(rows)
        /\ lastCall' = Some(
              [op |-> "clearAll", input |-> Null, storage |-> storage,
               outcome |-> IF db = Null THEN Thrown(ErrNoDatabase)
                           ELSE IF QueryRejects(db) THEN Thrown(ErrConnect)
                           ELSE Returned(TRUE)])
        /\ UNCHANGED <<nextId, clock, procs, lastSync, ui, record, evaluation,
                       listInput, listResult, statsResult, trendsInput,
                       trendsResult>>

\* A query: the store and everything but the record of the call stay
Answer(op, input, storage, outcome) ==
    /\ lastCall' = Some([op |-> op, input |-> input, storage |-> storage,
                         outcome |-> outcome])
    /\ UNCHANGED <<rows, nextId, clock, procs, lastSync, requests, ui, record,
                   evaluation, listInput, listResult, statsResult, trendsInput,
                   trendsResult>>

ServiceList(input, storage, collation) ==
    \E outcome \in listProcedure(rows, input, storage, collation) :
       Answer("list", [query |-> input, collation |-> collation], storage,
              outcome)

ServiceStats(storage) ==
    \E outcome \in statsProcedure(rows, storage) :
       Answer("stats", Null, storage, outcome)

ServiceById(id, storage) ==
    Answer("byId", id, storage, byIdProcedure(rows, id, storage))

ServiceTrends(filter, zone, storage) ==
    Answer("trends", [filter |-> filter, zone |-> zone], storage,
           trendsProcedure(rows, filter, zone, storage))

ServiceNext ==
    \/ \E t \in 1..Len(ServiceTables), storage \in Storages :
          ServiceSync(t, storage)
    \/ \E storage \in Storages : ServiceClearAll(storage)
    \/ \E input \in ServiceListInputs, storage \in Storages,
          collation \in Collations : ServiceList(input, storage, collation)
    \/ \E storage \in Storages : ServiceStats(storage)
    \/ \E id \in ServiceIds, storage \in Storages : ServiceById(id, storage)
    \/ \E zone \in ServerZones, storage \in Storages :
          ServiceTrends(NoTrendsFilter, zone, storage)
    \/ Tick

ServiceSpec == ServiceInit /\ [][ServiceNext]_vars

----------------------------------------------------------------------------
(* Properties of the import and of the store *)

\* C1: in every reachable state of the store, whatever syncFromAirtable and
\* clearAll calls ran and however the single-row upserts of concurrent imports
\* interleaved, no two rows of call_evaluations have the same callId.
C1_CallIdUnique ==
    \A r1 \in rows, r2 \in rows : r1.callId = r2.callId => r1 = r2

\* C1 happens: two imports are both past their first upsert, each disturbed by
\* the other, and both have written the same callId
C1_Witness ==
    \E p \in ApiCallers, q \in ApiCallers :
        /\ p # q
        /\ procs[p].pc = "upsert" /\ procs[q].pc = "upsert"
        /\ procs[p].i > 1 /\ procs[q].i > 1
        /\ ~procs[p].alone /\ ~procs[q].alone
        /\ procs[p].evaluations[1].callId = procs[q].evaluations[1].callId
        /\ \E r \in rows : r.callId = procs[p].evaluations[1].callId

\* C2: an import of a snapshot that ran alone, directly after an import of the
\* same snapshot that ran alone, with no write in between, leaves the number of
\* rows the first import left.
C2_ImportIdempotent ==
    (/\ lastSync # Null
     /\ Val(lastSync).prev # Null
     /\ Val(Val(lastSync).prev).snap = Val(lastSync).snap)
    => Val(lastSync).count = Val(Val(lastSync).prev).count

\* C2 happens: the same non-empty snapshot was imported twice in a row
C2_Witness ==
    /\ lastSync # Null
    /\ Val(lastSync).prev # Null
    /\ Val(Val(lastSync).prev).snap = Val(lastSync).snap
    /\ Val(lastSync).count = 2
    /\ Cardinality(rows) = 2

\* C3: when two consecutive imports each deliver a record with the same
\* external record identifier and different average scores, the store holds
\* exactly one row for that record, with the second import's average score.
C3_OneRowPerRecord ==
    (lastSync # Null /\ Val(lastSync).prev # Null) =>
        LET Records(snap) ==
                UNION {SeqRange(Snapshots[snap][k]) :
                          k \in 1..Len(Snapshots[snap])}
            first == Records(Val(Val(lastSync).prev).snap)
            second == Records(Val(lastSync).snap)
        IN  \A a \in first, b \in second :
               (a.id = b.id /\ a.fields.average_score # b.fields.average_score)
               => LET stored == {r \in rows : r.airtableRecordId = Some(b.id)}
                  IN  /\ Cardinality(stored) = 1
                      /\ \A r \in stored :
                            r.averageScore = DecimalColumn(b.fields.average_score)

\* C4: syncFromAirtable and clearAll called with no user in the request
\* context are rejected with an error and change no stored row.
C4_MutationsRequireUser ==
    \A p \in ApiCallers :
        UserOf(p) = NoUser =>
            /\ procs[p].pc # "upsert"
            /\ procs[p].result # Null =>
                  /\ ~Val(procs[p].result).ok
                  /\ Val(procs[p].result).written = 0

\* C5: with no signed-in user, the Sincronizar button of the dashboard opens
\* the sync dialog (from which a valid key is submitted and the sync completes).
C5_SyncWithoutLogin ==
    [][(~ui.isAuthenticated /\ handleOpenSyncDialog) => ui'.isSyncDialogOpen]_vars

\* C6: the mapped proceso is the upper-cased source value when that is one of
\* the six known categories and DESCONOCIDO otherwise (absent included), and
\* every stored row has its proceso among the seven enum values.
C6_ProcesoClosed ==
    /\ evaluation # Null =>
          LET src == record.fields.proceso
              six == ProcesoEnum \ {DESCONOCIDO}
          IN  Val(evaluation).proceso =
                 IF src # Null /\ toUpperCase(Val(src)) \in six
                 THEN Some(toUpperCase(Val(src)))
                 ELSE Some(DESCONOCIDO)
    /\ \A r \in rows : r.proceso # Null /\ Val(r.proceso) \in ProcesoEnum

\* C6 happens: a lower-case "cobros" was mapped and stored as COBROS
C6_Witness ==
    /\ record.fields.proceso = Some(<<"c","o","b","r","o","s">>)
    /\ evaluation # Null
    /\ \E r \in rows : r.proceso = Some(COBROS)

\* C7: the mapped priority is P1 exactly when the source priority is the
\* string "P1"; any other value, absent, "p1" or other text, maps to P0.
C7_PriorityExact ==
    evaluation # Null =>
        /\ Val(evaluation).priority \in {Some(P0), Some(P1)}
        /\ Val(evaluation).priority = Some(P1)
              <=> record.fields.priority = Some(P1)

\* C7 happens: a source priority "p1" was mapped to P0
C7_Witness ==
    /\ record.fields.priority = Some(<<"p","1">>)
    /\ evaluation # Null
    /\ Val(evaluation).priority = Some(P0)

----------------------------------------------------------------------------
(* Properties of evaluations.list *)

\* C8: for every combination of filters the returned rows are a subset of the
\* rows returned without filters; every returned row satisfies every supplied
\* condition; the conditions not supplied exclude nothing, so every row that
\* satisfies the supplied ones is returned, and all rows when none is supplied.
\* A text condition given as the empty string counts as not supplied, as on the
\* Home page; each condition is the comparison the query builder makes for it.
C8_FiltersConjoin ==
    listResult # Null =>
        LET in == Val(listInput)
            f == ListFilters(in)
            got == SeqRange(Val(listResult))
            Supplied ==
                {fld \in FilterFields :
                    IF fld \in {"minScore", "maxScore", "startDate", "endDate"}
                    THEN f[fld] # Null ELSE TruthyStr(f[fld])}
            Satisfies(fld, r) ==
                CASE fld = "search" -> SearchCondition(Val(f.search), r)
                  [] fld = "operatorName" -> r.operatorName = f.operatorName
                  [] fld = "proceso" -> r.proceso = f.proceso
                  [] fld = "priority" -> r.priority = f.priority
                  [] fld = "scenarioId" -> r.scenarioId = f.scenarioId
                  [] fld = "minScore" ->
                        r.averageScore # Null
                        /\ Val(r.averageScore) * 10 >= Val(f.minScore)
                  [] fld = "maxScore" ->
                        r.averageScore # Null
                        /\ Val(r.averageScore) * 10 <= Val(f.maxScore)
                  [] fld = "startDate" ->
                        r.evaluatedAt # Null
                        /\ Val(r.evaluatedAt) >= Val(f.startDate)
                  [] fld = "endDate" ->
                        r.evaluatedAt # Null
                        /\ Val(r.evaluatedAt) <= Val(f.endDate)
            unfiltered ==
                list(rows, [NoListInput EXCEPT !.sortBy = in.sortBy,
                                               !.sortOrder = in.sortOrder])
        IN  /\ \A all \in unfiltered : got \subseteq SeqRange(all)
            /\ Len(Val(listResult)) = Cardinality(got)
            /\ \A r \in got : \A fld \in Supplied : Satisfies(fld, r)
            /\ \A r \in rows :
                  (\A fld \in Supplied : Satisfies(fld, r)) => r \in got
            /\ Supplied = {} => got = rows

\* C8 happens: priority and maxScore were supplied together, one row is
\* returned, and a row that meets only the priority and a row that meets only
\* the score bound are both left out
C8_Witness ==
    /\ listResult # Null
    /\ Val(listInput).priority = Some(P1)
    /\ Val(listInput).maxScore = Some(80000)
    /\ Len(Val(listResult)) = 1
    /\ \E r \in rows \ SeqRange(Val(listResult)) :
          r.priority = Some(P1) /\ r.averageScore = Some(9500)
    /\ \E r \in rows \ SeqRange(Val(listResult)) :
          r.priority = Some(P0) /\ r.averageScore = Some(8000)

C10_AscReversedIsDesc ==
    (/\ listResult # Null
     /\ rows # {}
     /\ Val(listInput).sortBy # Null
     /\ Val(Val(listInput).sortBy) \in SortColumns)
    => LET in == Val(listInput)
           X == Val(in.sortBy)
           res == Val(listResult)
           flipped == [in EXCEPT !.sortOrder = IF in.sortOrder = Some("asc")
                                               THEN Some("desc")
                                               ELSE Some("asc")]
           Reversed(q) == [k \in 1..Len(q) |-> q[Len(q) + 1 - k]]
           Keys(q) == [k \in 1..Len(q) |-> OrderKey(q[k], X)]
       IN  \A other \in list(rows, flipped) :
              /\ SeqRange(other) = SeqRange(res)
              /\ Keys(other) = Keys(Reversed(res))

\* C10 happens: a filtered list sorted ascending by averageScore starts with a
\* row without score and goes on with two different scores
C10_Witness ==
    /\ listResult # Null
    /\ Val(listInput).sortBy = Some("averageScore")
    /\ Val(listInput).sortOrder = Some("asc")
    /\ Val(listInput).priority = Some(P1)
    /\ Len(Val(listResult)) = 3
    /\ Val(listResult)[1].averageScore = Null
    /\ Val(listResult)[2].averageScore = Some(5500)
    /\ Val(listResult)[3].averageScore = Some(9500)

\* C11: when sortBy is a column the data table offers a sort control for, the
\* list result is ordered by that column in the requested direction: no row
\* comes after a row it must precede.
C11_TableColumnsSort ==
    (/\ listResult # Null
     /\ Val(listInput).sortBy # Null
     /\ Val(Val(listInput).sortBy) \in TableSortColumns)
    => LET X == Val(Val(listInput).sortBy)
           res == Val(listResult)
       IN  \A i \in 1..Len(res), j \in 1..Len(res) :
              i < j =>
                 IF Val(listInput).sortOrder = Some("asc")
                 THEN ~asc(X, res[j], res[i])
                 ELSE ~desc(X, res[j], res[i])

----------------------------------------------------------------------------
(* Properties of evaluations.stats *)

\* C12: whenever stats answers, after any imports and clearAll, its totalCalls
\* is the number of rows in the table at that moment.
C12_TotalCallsIsRowCount ==
    (statsResult # Null /\ Val(statsResult) # Null)
    => Val(Val(statsResult)).totalCalls = Cardinality(rows)

\* C12 happens: after an import changed the table, stats counted its rows, one
\* of them without average score
C12_Witness ==
    /\ statsResult # Null /\ Val(statsResult) # Null
    /\ requests > 0
    /\ Val(Val(statsResult)).totalCalls > 2
    /\ \E r \in rows : r.averageScore = Null

\* C13 as stated: overallAverageScore is exactly the mean of averageScore over
\* the rows that have one, and 0 when no row has one.
C13_OverallAverageExact ==
    (statsResult # Null /\ Val(statsResult) # Null)
    => LET scored == {r \in rows : r.averageScore # Null}
           mean == Val(Val(statsResult)).overallAverageScore
       IN  IF scored = {} THEN mean = 0
           ELSE mean * Cardinality(scored) = SumScore(scored, "averageScore")

\* C13 amended: overallAverageScore is the mean of averageScore over exactly
\* the rows that have one, rounded to two decimals (a half rounds up), and 0
\* when no row has one; on an empty table totalCalls is 0 and both
\* distributions and topOperators are empty.
C13_OverallAverageRounded ==
    (statsResult # Null /\ Val(statsResult) # Null)
    => LET st == Val(Val(statsResult))
           scored == {r \in rows : r.averageScore # Null}
           n == Cardinality(scored)
           total == SumScore(scored, "averageScore")
       IN  /\ IF scored = {} THEN st.overallAverageScore = 0
              ELSE /\ 2 * n * st.overallAverageScore <= 2 * total + n
                   /\ 2 * total + n < 2 * n * (st.overallAverageScore + 1)
           /\ rows = {} =>
                 /\ st.totalCalls = 0
                 /\ DOMAIN st.procesoDistribution = {}
                 /\ DOMAIN st.priorityDistribution = {}
                 /\ st.topOperators = <<>>

\* C13 happens: three rows have averages 55, 80 and 95, another has none, and
\* the answer is their mean 76.666... rounded to 76.67
C13_Witness ==
    /\ statsResult # Null /\ Val(statsResult) # Null
    /\ {r.averageScore : r \in rows} = {Some(5500), Some(8000), Some(9500), Null}
    /\ Cardinality(rows) = 4
    /\ Val(Val(statsResult)).overallAverageScore = 7667

\* C14: topOperators has at most 5 entries, one per operator name, in
\* non-increasing order of mean; each entry's mean and callCount are those of
\* the operator's rows that have both a name and an average score (0
\* included); an operator without such a row is absent; the list is as long as
\* 5 or the number of such operators allows, and no operator outside it has a
\* strictly higher mean than one inside.
C14_TopOperators ==
    (statsResult # Null /\ Val(statsResult) # Null)
    => LET top == Val(Val(statsResult)).topOperators
           RowsOf(name) == {r \in rows : r.operatorName = Some(name)
                                         /\ r.averageScore # Null}
           eligible == {Val(r.operatorName) :
                           r \in {x \in rows : x.operatorName # Null
                                               /\ x.averageScore # Null}}
           MeanOf(name) == Quotient(SumScore(RowsOf(name), "averageScore"),
                                    Cardinality(RowsOf(name)))
           inside == {top[i].name : i \in 1..Len(top)}
       IN  /\ Len(top) <= 5
           /\ Len(top) = (IF Cardinality(eligible) < 5
                          THEN Cardinality(eligible) ELSE 5)
           /\ Cardinality(inside) = Len(top)
           /\ inside \subseteq eligible
           /\ \A i \in 1..Len(top) :
                 /\ top[i].callCount = Cardinality(RowsOf(top[i].name))
                 /\ QuotientEq(top[i].averageScore, MeanOf(top[i].name))
           /\ \A i \in 1..Len(top), j \in 1..Len(top) :
                 i < j => ~QuotientLess(top[i].averageScore, top[j].averageScore)
           /\ \A name \in eligible \ inside : \A i \in 1..Len(top) :
                 ~QuotientLess(top[i].averageScore, MeanOf(name))

\* C14 happens: seven operators have scored rows, five are listed, the last
\* listed one ties with one left out, and the operator whose mean is 0 and the
\* rows without operator or without score are not listed
C14_Witness ==
    /\ statsResult # Null /\ Val(statsResult) # Null
    /\ Len(Val(Val(statsResult)).topOperators) = 5
    /\ Val(Val(statsResult)).topOperators[5].name = PAZ
    /\ \E r \in rows : r.operatorName = Some(LUIS) /\ r.averageScore = Some(6000)
    /\ \E r \in rows : r.operatorName = Some(EVA) /\ r.averageScore = Some(0)
    /\ \E r \in rows : r.operatorName = Null /\ r.averageScore # Null

----------------------------------------------------------------------------
(* Properties of evaluations.trends *)

\* C15: for every store and every trends filter, the dates of trends().overall
\* are strictly ascending, and so are the dates of the data of every series of
\* trends().byOperator.
C15_TrendDatesAscending ==
    trendsResult # Null =>
        LET Ascending(q) ==
                \A i \in 1..Len(q), j \in 1..Len(q) : i < j => q[i].date < q[j].date
        IN  /\ Ascending(Val(trendsResult).overall)
            /\ \A op \in Val(trendsResult).byOperator : Ascending(op.data)

\* C15 happens: the overall series has three dates and one operator's series
\* has two
C15_Witness ==
    /\ trendsResult # Null
    /\ Len(Val(trendsResult).overall) = 3
    /\ \E op \in Val(trendsResult).byOperator :
          op.operatorName = LUIS /\ Len(op.data) = 2

\* C16: a row participates in trends exactly when its timestamp (evaluatedAt,
\* else createdAt) lies from the start of the startDate day to the end of the
\* endDate day: each date's callCount is the number of such rows of that date,
\* every point's date is within [startDate, endDate], and when no row is in
\* the range overall and byOperator are empty.
C16_TrendsDateRange ==
    (trendsResult # Null /\ Val(trendsInput).dbOk)
    => LET f == Val(trendsInput).filter
           Stamp(r) == IF r.evaluatedAt # Null THEN Val(r.evaluatedAt)
                       ELSE r.createdAt
           DayOf(r) == Stamp(r) \div TicksPerDay
           InRange(r) ==
               /\ f.startDate # Null => Val(f.startDate) <= DayOf(r)
               /\ f.endDate # Null => DayOf(r) <= Val(f.endDate)
           expected == {r \in rows : InRange(r)}
           overall == Val(trendsResult).overall
       IN  /\ {overall[i].date : i \in 1..Len(overall)}
                 = {DayOf(r) : r \in expected}
           /\ \A i \in 1..Len(overall) :
                 overall[i].callCount =
                    Cardinality({r \in expected : DayOf(r) = overall[i].date})
           /\ expected = {} =>
                 /\ overall = <<>>
                 /\ Val(trendsResult).byOperator = {}

\* C17: in every trend point, overall and per operator, each of the five score
\* means is the sum of that score over the participating rows of the date, a
\* missing score counted as 0, divided by the number of those rows, which is
\* the point's callCount.
C17_TrendMeansCountNullAsZero ==
    (trendsResult # Null /\ Val(trendsInput).dbOk)
    => LET in == Val(trendsInput)
           S == Participating(rows, in.filter, in.zone)
           Score(r, col) == IF r[col] = Null THEN 0 ELSE Val(r[col])
           Holds(point, G) ==
               /\ G # {}
               /\ point.callCount = Cardinality(G)
               /\ \A col \in {"averageScore", "adherenceScore", "sentimentScore",
                              "correctnessScore", "speedScore"} :
                     /\ point[col].count = Cardinality(G)
                     /\ \E order \in [1..Cardinality(G) -> G] :
                           /\ {order[k] : k \in 1..Cardinality(G)} = G
                           /\ point[col].total =
                                 LET RECURSIVE Upto(_)
                                     Upto(k) == IF k = 0 THEN 0
                                                ELSE Upto(k - 1) + Score(order[k], col)
                                 IN  Upto(Cardinality(G))
       IN  /\ \A i \in 1..Len(Val(trendsResult).overall) :
                 LET point == Val(trendsResult).overall[i]
                 IN  Holds(point, {r \in S : ISODate(DateObj(r)) = point.date})
           /\ \A op \in Val(trendsResult).byOperator :
                 \A i \in 1..Len(op.data) :
                    Holds(op.data[i],
                          {r \in S : /\ ISODate(DateObj(r)) = op.data[i].date
                                     /\ OpName(r) = op.operatorName})

\* C17 happens: a date has three rows with averages 55, none and 80, and its
\* mean average is 135 / 3
C17_Witness ==
    /\ trendsResult # Null /\ Val(trendsInput).dbOk
    /\ Len(Val(trendsResult).overall) > 0
    /\ Val(trendsResult).overall[1].callCount = 3
    /\ Val(trendsResult).overall[1].averageScore = Quotient(13500, 3)
    /\ {r.averageScore : r \in {x \in rows : DateObj(x) \div TicksPerDay = 1}}
          = {Some(5500), Null, Some(8000)}

----------------------------------------------------------------------------
\* C18: syncFromAirtable follows the continuation token page by page: the
\* first request carries no token, every later request carries the token of
\* the page before it, and the records accumulated so far are exactly those of
\* the pages before the one requested, in order. The page without a token is
\* the last one requested in the call. On success recordsImported is the total
\* number of records over all pages of the table, inserted or updated alike.
\* Every call waiting in the fetch loop leaves it, the source's tables having
\* finitely many pages.
C18_FetchFollowsToken ==
    /\ [](\A p \in Callers :
            LET pr == procs[p]
                pages == Snapshots[pr.snap]
                upTo[n \in 0..Len(pages)] ==
                    IF n = 0 THEN <<>> ELSE upTo[n - 1] \o pages[n]
                n == IF pr.offset = Null THEN 1 ELSE Val(pr.offset)
            IN  /\ pr.pc = "fetch" =>
                      /\ n \in 1..Len(pages)
                      /\ pr.allRecords = upTo[n - 1]
                      /\ IF pr.offset = Null THEN pr.response = Null
                         ELSE /\ pr.response # Null
                              /\ Val(pr.response).ok
                              /\ pr.offset = Val(pr.response).offset
                /\ pr.pc = "upsert" =>
                      /\ pr.response # Null
                      /\ Val(pr.response).ok
                      /\ Val(pr.response).offset = Null
                      /\ pr.allRecords = upTo[Len(pages)]
                      /\ Len(pr.evaluations) = Len(pr.allRecords))
    /\ [][\A p \in Callers :
            LET pages == Snapshots[procs[p].snap]
                total[n \in 0..Len(pages)] ==
                    IF n = 0 THEN 0 ELSE total[n - 1] + Len(pages[n])
            IN  procs[p].pc = "upsert" =>
                   /\ procs'[p].pc # "fetch"
                   /\ (procs'[p].result # Null /\ Val(procs'[p].result).ok) =>
                         Val(procs'[p].result).recordsImported =
                            total[Len(pages)]]_vars
    /\ \A p \in ApiCallers :
          (procs[p].pc = "fetch") ~> (procs[p].pc # "fetch")

\* A call that fetched the two pages of the first table, one record each, ran
\* alone after an import of the second table and reports 2 records, both of
\* them updates
C18_Witness ==
    /\ lastSync # Null
    /\ Val(lastSync).snap = 1
    /\ Val(lastSync).prev # Null
    /\ Val(Val(lastSync).prev).snap = 2
    /\ \E p \in ApiCallers :
          /\ procs[p].result # Null
          /\ Val(procs[p].result).ok
          /\ Val(procs[p].result).op = "sync"
          /\ Val(procs[p].result).recordsImported = 2
          /\ Val(procs[p].result).written = 2
          /\ Cardinality(rows) = 2

----------------------------------------------------------------------------
\* C19: every outcome of syncFromAirtable is either a success with a record
\* count (at least one record, every one of them saved, no error message) or
\* one error message with no count. A call that leaves the fetch loop without
\* a rejected or failed request and without going on to save has found zero records over
\* all pages and ends with the empty-table error, which no other failure
\* uses; a table with zero records never reaches the saving step.
C19_SuccessOrOneError ==
    /\ [](\A p \in Callers :
            procs[p].result # Null /\ Val(procs[p].result).op = "sync" =>
               LET r == Val(procs[p].result)
               IN  \/ /\ r.ok
                      /\ r.recordsImported >= 1
                      /\ r.written = r.recordsImported
                      /\ r.message = ""
                   \/ /\ ~r.ok
                      /\ r.recordsImported = 0
                      /\ r.message # ""
                      /\ \/ r.message \in {ErrEmptyTable, ErrDatabase}
                         \/ r.message \in
                               {ErrAirtableApi(st) : st \in {401, 404, 503}}
                         \/ r.message = cleanMessage(HeaderError(LONG_KEY))
                      /\ r.message = ErrEmptyTable => r.written = 0)
    /\ [][\A p \in Callers :
            LET pages == Snapshots[procs[p].snap]
                total[n \in 0..Len(pages)] ==
                    IF n = 0 THEN 0 ELSE total[n - 1] + Len(pages[n])
            IN  procs[p].pc = "fetch" =>
                   /\ total[Len(pages)] = 0 => procs'[p].pc # "upsert"
                   /\ (/\ procs'[p].pc = "idle"
                       /\ procs'[p].response = Null
                       /\ ValidHeaderValue(procs[p].apiKey)) =>
                         /\ total[Len(pages)] = 0
                         /\ ~Val(procs'[p].result).ok
                         /\ Val(procs'[p].result).message = ErrEmptyTable
                   /\ (procs'[p].pc = "idle" /\ procs'[p].response # Null) =>
                         Val(procs'[p].result).message # ErrEmptyTable]_vars

\* One caller was told the table is empty while another's import failed in the
\* store after its first record was saved
C19_Witness ==
    \E p, q \in ApiCallers :
       /\ procs[p].result # Null
       /\ ~Val(procs[p].result).ok
       /\ Val(procs[p].result).message = ErrEmptyTable
       /\ procs[q].result # Null
       /\ ~Val(procs[q].result).ok
       /\ Val(procs[q].result).message = ErrDatabase
       /\ Val(procs[q].result).written = 1

----------------------------------------------------------------------------
\* C20: when the source rejects a page request, the call ends on that response
\* without another request, and the error returned to the caller is the
\* source's own message ("Airtable: " and the message of the body), cleaned and
\* truncated, when the body is JSON with an error message, and otherwise the
\* message with the status code that tells to check the API key and permissions.
C20_SourceMessageCarried ==
    \A p \in Callers :
       LET pr == procs[p]
       IN  (pr.response # Null /\ ~Val(pr.response).ok) =>
              LET response == Val(pr.response)
                  body == response.body
              IN  /\ pr.pc = "idle"
                  /\ pr.result # Null
                  /\ ~Val(pr.result).ok
                  /\ Val(pr.result).message =
                        IF body.json /\ body.message # Null
                        THEN cleanMessage("Airtable: " \o Val(body.message))
                        ELSE cleanMessage(ErrAirtableApi(response.status))

----------------------------------------------------------------------------
\* C21: every error message syncFromAirtable returns is bounded: it is the
\* original message of the failure (a request fetch refuses to send, a rejected
\* request, the empty table, the store) when that has at most 200 characters,
\* and otherwise its first 200 characters followed by "...", so never more
\* than 203 characters; and the raw error text of the store is not in it.
C21_ErrorMessagesBounded ==
    \A p \in Callers :
       (/\ procs[p].result # Null
        /\ Val(procs[p].result).op = "sync"
        /\ ~Val(procs[p].result).ok) =>
          LET message == Val(procs[p].result).message
              originals ==
                  {ErrEmptyTable, ErrDatabase}
                     \cup {ErrAirtableApi(st) : st \in {401, 404, 503}}
                     \cup {HeaderError(k) : k \in ApiKeys \cup {LONG_KEY}}
              raw == ErrNoDatabase
          IN  /\ Len(message) <= 203
              /\ \E original \in originals :
                    IF Len(original) <= 200 THEN message = original
                    ELSE message = SubSeq(original, 1, 200) \o "..."
              /\ ~\E k \in 1..Len(message) :
                     /\ k + Len(raw) - 1 <= Len(message)
                     /\ SubSeq(message, k, k + Len(raw) - 1) = raw

\* The caller got a message cut at 200 characters, for a key of 221 characters
\* that fetch refused to send
C21_Witness ==
    \E p \in ApiCallers :
       /\ procs[p].result # Null
       /\ ~Val(procs[p].result).ok
       /\ Len(Val(procs[p].result).message) = 203
       /\ SubSeq(Val(procs[p].result).message, 1, 23) = "Headers.append: \"Bearer"
       /\ SubSeq(Val(procs[p].result).message, 201, 203) = "..."

----------------------------------------------------------------------------
\* C22: when the storage is unavailable (no usable DATABASE_URL, or a database
\* that cannot be reached), every read returns without error - list an empty
\* sequence, stats null, byId undefined, trends empty overall and byOperator -
\* and every write (the import's upserts, clearAll) throws.
C22_ReadsDegradeWritesFail ==
    (lastCall # Null /\ Val(lastCall).storage # "up") =>
       LET op == Val(lastCall).op
           outcome == Val(lastCall).outcome
       IN  IF op \in {"syncFromAirtable", "clearAll"} THEN outcome.threw
           ELSE /\ ~outcome.threw
                /\ op = "list" => outcome.value = <<>>
                /\ op = "stats" => outcome.value = Null
                /\ op = "byId" => outcome.value = Null
                /\ op = "trends" => /\ outcome.value.overall = <<>>
                                    /\ outcome.value.byOperator = {}

----------------------------------------------------------------------------
----------------------------------------------------------------------------
\* C24: the mapped callId is the record's call_id when that field is present
\* and not the empty string, and the record's own identifier otherwise; it is
\* never empty, in the evaluation and in the stored row; airtableRecordId is
\* the record's identifier.
C24_CallIdFallsBackToRecordId ==
    /\ evaluation # Null =>
          LET src == record.fields.call_id
          IN  /\ Val(evaluation).callId =
                    IF src # Null /\ Len(Val(src)) > 0 THEN Val(src)
                    ELSE record.id
              /\ Len(Val(evaluation).callId) > 0
              /\ Val(evaluation).airtableRecordId = record.id
    /\ \A r \in rows :
          /\ Len(r.callId) > 0
          /\ r.airtableRecordId = Some(record.id)

\* A record whose call_id is the empty string was stored under its record id
C24_Witness ==
    /\ record.fields.call_id = Some(<<>>)
    /\ record.id = REC_B
    /\ evaluation # Null
    /\ \E r \in rows : r.callId = REC_B /\ r.airtableRecordId = Some(REC_B)

----------------------------------------------------------------------------
\* C25: after a successful import with no other writer, for each callId
\* occurring among the imported records the store has one row whose written
\* columns are those of the mapping of the last record with that callId in
\* page-arrival order, a column being NULL where that record has no value; a
\* row that was there before keeps its id and its createdAt and has its
\* updatedAt refreshed; rows of other callIds are untouched.
C25_LastRecordWins ==
    [][(/\ requests' = requests + 1
        /\ lastCall' # Null
        /\ Val(lastCall').op = "syncFromAirtable"
        /\ ~Val(lastCall').outcome.threw) =>
          LET records == AllRecords(ServiceTables[Val(lastCall').input])
              callIds == [k \in 1..Len(records) |-> mapCallId(records[k])]
          IN  /\ \A k \in 1..Len(records) :
                    (\A i \in (k + 1)..Len(records) : callIds[i] # callIds[k]) =>
                       LET w == WrittenColumns(mapAirtableToEvaluation(records[k]))
                           now == {n \in rows' : n.callId = callIds[k]}
                           before == {r \in rows : r.callId = callIds[k]}
                       IN  /\ Cardinality(now) = 1
                           /\ \A n \in now :
                                 /\ [col \in DOMAIN w |-> n[col]] = w
                                 /\ n.updatedAt = clock
                                 /\ \A r \in before :
                                       n.id = r.id /\ n.createdAt = r.createdAt
                                 /\ before = {} =>
                                       /\ n.createdAt = clock
                                       /\ ~\E r \in rows : r.id = n.id
              /\ \A r \in rows :
                    (\A k \in 1..Len(records) : callIds[k] # r.callId)
                       => r \in rows']_vars

\* The second table was imported a tick after the first: the row of call c1,
\* written twice in that import, has the columns of the later record, with no
\* operator and no score left, under its first id and createdAt
C25_Witness ==
    /\ lastCall # Null
    /\ Val(lastCall).op = "syncFromAirtable"
    /\ Val(lastCall).input = 2
    /\ ~Val(lastCall).outcome.threw
    /\ \E r \in rows :
          /\ r.callId = CALL1
          /\ r.id = 1
          /\ r.createdAt = 0
          /\ r.updatedAt = 1
          /\ r.operatorName = Null
          /\ r.averageScore = Null
          /\ r.airtableRecordId = Some(REC_C)

----------------------------------------------------------------------------
\* C26: the import is not atomic. While a call that no other writer disturbed
\* is saving, the rows of the records it has upserted so far are in the store;
\* when the store fails at its k-th upsert the store is left as it is at that
\* moment, with the first k-1 upserts in it and nothing of the k-th and later
\* records written by the call, which ends there with the storage error and
\* no count.
C26_NoRollback ==
    /\ [](\A p \in Callers :
            (procs[p].pc = "upsert" /\ procs[p].alone) =>
               \A j \in 1..(procs[p].i - 1) :
                  \E r \in rows :
                     /\ r.callId = procs[p].evaluations[j].callId
                     /\ \E h \in j..(procs[p].i - 1) :
                           /\ procs[p].evaluations[h].callId = r.callId
                           /\ r.airtableRecordId =
                                 Some(procs[p].evaluations[h].airtableRecordId)
                           /\ r.averageScore =
                                 DecimalColumn(procs[p].evaluations[h].averageScore))
    /\ [][\A p \in Callers :
            (/\ procs[p].pc = "upsert"
             /\ procs'[p].pc = "idle"
             /\ ~Val(procs'[p].result).ok) =>
                /\ rows' = rows
                /\ Val(procs'[p].result).message = ErrDatabase
                /\ Val(procs'[p].result).written = procs[p].i - 1
                /\ Val(procs'[p].result).recordsImported = 0]_vars

\* The only import so far failed at its second upsert: the row of its first
\* record is in the store, alone
C26_Witness ==
    /\ requests = 1
    /\ Cardinality(rows) = 1
    /\ \E r \in rows : r.callId = CALL1
    /\ \E p \in ApiCallers :
          /\ procs[p].result # Null
          /\ ~Val(procs[p].result).ok
          /\ Val(procs[p].result).message = ErrDatabase
          /\ Val(procs[p].result).written = 1

----------------------------------------------------------------------------
\* text occurs in s as a run of consecutive characters, letters compared
\* without regard to case
ContainsIgnoringCase(s, text) ==
    \E i \in 0..(Len(s) - Len(text)) :
       \A k \in 1..Len(text) :
          toUpperCaseChar(s[i + k]) = toUpperCaseChar(text[k])

SearchedColumns(r) ==
    {Some(r.callId), r.operatorName, r.scenarioName, r.feedback}

\* C27: a list call with a non-empty search text, answered by the store,
\* returns exactly the rows of which callId, operatorName, scenarioName or
\* feedback contains the text literally, letters compared without regard to
\* case, whatever the characters of the text.
C27_SearchIsLiteralSubstring ==
    (/\ lastCall # Null
     /\ Val(lastCall).op = "list"
     /\ Val(lastCall).storage = "up"
     /\ TruthyStr(Val(lastCall).input.query.search)) =>
        LET text == Val(Val(lastCall).input.query.search)
            result == Val(lastCall).outcome.value
        IN  /\ ~Val(lastCall).outcome.threw
            /\ SeqRange(result) =
                  {r \in rows :
                      \E col \in SearchedColumns(r) :
                         col # Null /\ ContainsIgnoringCase(Val(col), text)}

----------------------------------------------------------------------------
\* C28: an import writes no row before it has fetched every page. Each step of
\* its fetch loop leaves the store as it is, the step on which a page request
\* is rejected or fails and the step that finds the table empty included, and
\* the saving starts with the records of all the pages of the table; a call
\* that ended on a request error or on the empty table has written nothing.
C28_NoWriteBeforeLastPage ==
    /\ [](\A p \in Callers :
            (/\ procs[p].result # Null
             /\ Val(procs[p].result).op = "sync"
             /\ ~Val(procs[p].result).ok
             /\ Val(procs[p].result).message # ErrDatabase) =>
                Val(procs[p].result).written = 0)
    /\ [][\A p \in Callers :
            (/\ \/ procs[p].pc = "fetch"
                \/ procs[p].pc = "idle" /\ procs'[p].pc = "fetch"
             /\ [procs'[p] EXCEPT !.alone = procs[p].alone] # procs[p]) =>
                /\ rows' = rows
                /\ nextId' = nextId
                /\ procs'[p].pc = "upsert" =>
                      procs'[p].allRecords =
                         AllRecords(Snapshots[procs[p].snap])]_vars

\* After an import that saved two rows, a second import got its first page
\* and was rejected on the request of its second page: the two rows are as
\* the first import left them
C28_Witness ==
    /\ requests = 2
    /\ lastSync # Null
    /\ Cardinality(rows) = 2
    /\ \E p \in Callers :
          /\ procs[p].result # Null
          /\ ~Val(procs[p].result).ok
          /\ Val(procs[p].result).written = 0
          /\ procs[p].response # Null
          /\ Val(procs[p].response).url # Null
          /\ ~Val(procs[p].response).ok

----------------------------------------------------------------------------
\* The rows evaluations.list selects for a date range given as day strings
ListedInRange(table, startDate, endDate) ==
    {r \in table :
        whereClause(ListFilters([NoListInput EXCEPT !.startDate = startDate,
                                                    !.endDate = endDate]), r)}

\* C29: given the same startDate and endDate, and no other filter, list and
\* trends select the same rows among the rows that have an evaluatedAt; so a
\* row evaluated at any time of the endDate day is listed, as it takes part in
\* the trends.
C29_ListAndTrendsSameRange ==
    (/\ trendsInput # Null
     /\ trendsResult # Null
     /\ Val(trendsInput).dbOk
     /\ Val(trendsInput).filter.operatorName = Null) =>
        LET filter == Val(trendsInput).filter
            dated == {r \in rows : r.evaluatedAt # Null}
        IN  Participating(dated, filter, Val(trendsInput).zone) =
               ListedInRange(dated, filter.startDate, filter.endDate)

----------------------------------------------------------------------------
\* The sum of the counts of a distribution
RECURSIVE SumCounts(_)
SumCounts(distribution) ==
    IF DOMAIN distribution = {} THEN 0
    ELSE LET v == CHOOSE x \in DOMAIN distribution : TRUE
         IN  distribution[v]
             + SumCounts([x \in DOMAIN distribution \ {v} |-> distribution[x]])

\* The sum of the callCounts of the points of a series, all or those of a date
RECURSIVE SumCallCounts(_)
SumCallCounts(points) ==
    IF points = <<>> THEN 0
    ELSE Head(points).callCount + SumCallCounts(Tail(points))

PointsOfDate(points, date) == SelectSeq(points, LAMBDA pt : pt.date = date)

\* The sum over the series of a set of the callCounts they have for a date
RECURSIVE SumOperatorCounts(_, _)
SumOperatorCounts(series, date) ==
    IF series = {} THEN 0
    ELSE LET op == CHOOSE x \in series : TRUE
         IN  SumCallCounts(PointsOfDate(op.data, date))
             + SumOperatorCounts(series \ {op}, date)

\* C30: on one state of the store every row is counted once in each
\* aggregate: the counts of procesoDistribution add up to totalCalls, the
\* number of rows, and so do those of priorityDistribution; without date and
\* operator filter the callCounts of the overall trend add up to the number of
\* rows, and the callCount of each of its dates is the sum of the callCounts
\* the operators' series have for that date.
C30_EveryRowCountedOnce ==
    /\ (statsResult # Null /\ Val(statsResult) # Null) =>
          LET stats == Val(Val(statsResult))
          IN  /\ stats.totalCalls = Cardinality(rows)
              /\ SumCounts(stats.procesoDistribution) = stats.totalCalls
              /\ SumCounts(stats.priorityDistribution) = stats.totalCalls
    /\ (/\ trendsResult # Null
         /\ Val(trendsInput).dbOk
         /\ Val(trendsInput).filter = NoTrendsFilter) =>
          LET trends == Val(trendsResult)
          IN  /\ SumCallCounts(trends.overall) = Cardinality(rows)
              /\ \A i \in 1..Len(trends.overall) :
                    trends.overall[i].callCount =
                       SumOperatorCounts(trends.byOperator,
                                         trends.overall[i].date)
====
